---- MODULE Spec2Model ----
(***************************************************************************)
(* Founder-PM Observer Plane: the Context Hub record store                 *)
(* (lib/context_hub.py, lib/schema.py) and the rule-based Proposal Engine  *)
(* (lib/proposal_engine.py), as state machines.                            *)
(*                                                                         *)
(* Text is modelled as a sequence of one-character strings, so that the    *)
(* orderings the code takes over file names (sorted(glob(...))) are the    *)
(* byte-wise orderings Python computes.  Decimal fractions are fixed-point *)
(* integers: rates in hundredths, minutes in tenths.                       *)
(***************************************************************************)
EXTENDS Integers, Sequences, FiniteSets, TLC

VARIABLES
    runs_dir,     \* files of context_hub/runs/: file name -> content
    wpc,          \* position of the writer inside write_run
    wrec,         \* the record write_run is persisting
    last,         \* the last completed Record Store call and its outcome
    parameters_dir,  \* files of context_hub/parameters/: file name -> config
    proposals_dir,   \* files of context_hub/proposals/: proposal id -> dict
    next_pid,        \* number of the next proposal id to be generated
    elast,           \* the last Proposal Engine call and its outcome
    sidecars,        \* the (artifact id, sidecar) pairs handed to the
                     \* Verdict Engine, in order
    verdicts,        \* the outcomes of its generate_verdict calls so far
    verdicts_dir,    \* files of context_hub/verdicts/: artifact id -> verdict
    summaries,       \* the (current, previous) summaries handed to
                     \* compute_trends
    trended,         \* the summary it returned
    analysis_dir,    \* files of context_hub/analysis/: report name -> content
    agent_log,       \* the lines of metrics/agent_runs.jsonl, oldest first
    clock,           \* the wall clock, in seconds
    alast,           \* the outcome of the last AnalysisAgent.run call
    ppc,             \* position of each concurrent caller inside its call
    parg,            \* the argument each concurrent caller was given
    phandle,         \* the name of the file each concurrent writer holds open
    pout,            \* the outcome of each concurrent caller's call
    porder           \* the callers in the order they completed their write

store_vars == <<runs_dir, wpc, wrec, last>>

engine_vars == <<parameters_dir, proposals_dir, next_pid, elast>>

verdict_vars == <<sidecars, verdicts, verdicts_dir>>

metrics_vars == <<summaries, trended>>

agent_vars == <<analysis_dir, agent_log, clock, alast>>

race_vars == <<ppc, parg, phandle, pout, porder>>

vars == <<runs_dir, wpc, wrec, last,
          parameters_dir, proposals_dir, next_pid, elast,
          sidecars, verdicts, verdicts_dir,
          summaries, trended,
          analysis_dir, agent_log, clock, alast,
          ppc, parg, phandle, pout, porder>>

(***************************************************************************)
(* Text                                                                    *)
(***************************************************************************)

\* ord(c) for the characters that occur in the names the model sorts.
Code(c) ==
    CASE c = "-" -> 45
      [] c = "." -> 46
      [] c = "0" -> 48
      [] c = "1" -> 49
      [] c = "2" -> 50
      [] c = "3" -> 51
      [] c = "4" -> 52
      [] c = "5" -> 53
      [] c = "6" -> 54
      [] c = "7" -> 55
      [] c = "8" -> 56
      [] c = "9" -> 57
      [] c = "_" -> 95
      [] c = "a" -> 97
      [] c = "b" -> 98
      [] c = "c" -> 99
      [] c = "d" -> 100
      [] c = "e" -> 101
      [] c = "g" -> 103
      [] c = "i" -> 105
      [] c = "j" -> 106
      [] c = "l" -> 108
      [] c = "m" -> 109
      [] c = "n" -> 110
      [] c = "o" -> 111
      [] c = "p" -> 112
      [] c = "r" -> 114
      [] c = "s" -> 115
      [] c = "t" -> 116
      [] c = "u" -> 117
      [] c = "v" -> 118
      [] c = "w" -> 119
      [] c = "y" -> 121

\* Python's str.__lt__: the first differing character decides, a proper
\* prefix is smaller.
RECURSIVE StrLess(_, _)
StrLess(s, t) ==
    IF t = <<>> THEN FALSE
    ELSE IF s = <<>> THEN TRUE
    ELSE IF Head(s) = Head(t) THEN StrLess(Tail(s), Tail(t))
    ELSE Code(Head(s)) < Code(Head(t))

JsonSuffix == <<".", "j", "s", "o", "n">>
TmpSuffix == <<".", "t", "m", "p">>

EndsWith(s, suffix) ==
    /\ Len(s) >= Len(suffix)
    /\ SubSeq(s, Len(s) - Len(suffix) + 1, Len(s)) = suffix

\* Path.stem of a name that ends with a suffix of the given length.
Stem(name, suffix) == SubSeq(name, 1, Len(name) - Len(suffix))

(***************************************************************************)
(* Run records (lib/schema.py)                                             *)
(***************************************************************************)

InputType == {"PRD", "FEATURE", "BUGFIX", "REFACTOR", "HOTFIX", "OTHER"}

PipelineStep == {"ingest", "build", "audit", "debug", "ship", "code_review",
                 "validation", "cursor_audit"}

valid_fail_categories == {"", "build", "environment", "code_quality",
                          "human_decision", "security", "git", "feasibility",
                          "runtime"}

\* The timestamps of the model and whether datetime.fromisoformat accepts them.
IsoTimestamp == "2026-02-06T12:00:00+00:00"
FromIsoFormatOk(ts) == ts = IsoTimestamp

\* RunRecord(run_id=..., timestamp=..., build_success=...) with the
\* dataclass defaults for the other fields.
RunRecord(run_id, build_success) ==
    [run_id |-> run_id,
     input_type |-> "PRD",
     timestamp |-> IsoTimestamp,
     duration_minutes |-> 0,
     pipeline_steps_executed |-> [py |-> "tuple", items |-> <<>>],
     build_success |-> build_success,
     tests_passed |-> 0,
     tests_failed |-> 0,
     lint_errors |-> 0,
     type_errors |-> 0,
     diff_size_lines |-> 0,
     files_created |-> 0,
     files_modified |-> 0,
     tokens_input |-> 0,
     tokens_output |-> 0,
     cost_usd |-> 0,
     fail_category |-> "",
     is_recursive |-> FALSE,
     recursive_parent_id |-> "",
     iteration_number |-> 0]

\* validate_run_record: the issues found, as a set of tags (empty = valid).
validate_run_record(record) ==
    {issue \in {"run_id", "timestamp", "duration_minutes", "tests_passed",
                "tests_failed", "lint_errors", "type_errors", "input_type",
                "pipeline_step", "fail_category", "tokens_input",
                "tokens_output", "cost_usd", "iteration_number",
                "is_recursive"} :
        CASE issue = "run_id" -> record.run_id = <<>>
          [] issue = "timestamp" ->
                \/ record.timestamp = ""
                \/ ~FromIsoFormatOk(record.timestamp)
          [] issue = "duration_minutes" -> record.duration_minutes < 0
          [] issue = "tests_passed" -> record.tests_passed < 0
          [] issue = "tests_failed" -> record.tests_failed < 0
          [] issue = "lint_errors" -> record.lint_errors < 0
          [] issue = "type_errors" -> record.type_errors < 0
          [] issue = "input_type" ->
                /\ record.input_type # ""
                /\ record.input_type \notin InputType
          [] issue = "pipeline_step" ->
                \E i \in 1..Len(record.pipeline_steps_executed.items) :
                    record.pipeline_steps_executed.items[i] \notin PipelineStep
          [] issue = "fail_category" ->
                /\ record.fail_category # ""
                /\ record.fail_category \notin valid_fail_categories
          [] issue = "tokens_input" -> record.tokens_input < 0
          [] issue = "tokens_output" -> record.tokens_output < 0
          [] issue = "cost_usd" -> record.cost_usd < 0
          [] issue = "iteration_number" -> record.iteration_number < 0
          [] issue = "is_recursive" ->
                record.is_recursive /\ record.recursive_parent_id = ""}

\* RunRecord.to_dict: the tuple fields become lists.
to_dict(record) ==
    [record EXCEPT !.pipeline_steps_executed =
        [py |-> "list", items |-> record.pipeline_steps_executed.items]]

\* What json.load can return besides a dict of a record's fields: a JSON
\* value that is no object is a record with its Python type under "py" (no
\* dict of the model has that key).
JsonValue(py) == [py |-> py]
IsDict(data) == "py" \notin DOMAIN data

\* The fields of the dataclass with their defaults; only run_id has none.
RunRecordDefaults == [RunRecord(<<>>, FALSE) EXCEPT !.timestamp = ""]
RequiredFields == {"run_id"}

\* The exception RunRecord.from_dict(data) ends with, "" when it returns:
\* `key in data` raises TypeError on a number, a boolean and None;
\* data.items() raises AttributeError on a list and a string; tuple(x)
\* raises TypeError when x is not iterable; cls(**filtered) raises TypeError
\* when run_id is missing.
FromDictRaises(data) ==
    IF ~IsDict(data)
    THEN IF data.py \in {"int", "bool", "NoneType"} THEN "TypeError"
         ELSE "AttributeError"
    ELSE IF /\ "pipeline_steps_executed" \in DOMAIN data
            /\ data.pipeline_steps_executed.py
                   \notin {"list", "tuple", "str"}
    THEN "TypeError"
    ELSE IF RequiredFields \ DOMAIN data # {} THEN "TypeError"
    ELSE ""

\* RunRecord.from_dict on a dict it accepts: lists become tuples again, the
\* known fields are kept and the missing ones take their defaults.
from_dict(data) ==
    [field \in DOMAIN RunRecordDefaults |->
        IF field \notin DOMAIN data THEN RunRecordDefaults[field]
        ELSE IF field = "pipeline_steps_executed"
        THEN [py |-> "tuple", items |-> data.pipeline_steps_executed.items]
        ELSE data[field]]

\* RunRecord.to_json: the JSON text of to_dict(record), as a file content.
to_json(record) == [kind |-> "json", data |-> to_dict(record)]

\* A file that open(..., "w") has created or truncated and not yet written,
\* and one that holds a proper prefix of the JSON text.
EmptyFile == [kind |-> "empty"]
PartialFile(record) == [kind |-> "partial", of |-> record.run_id]

(***************************************************************************)
(* Record Store (lib/context_hub.py)                                       *)
(***************************************************************************)

_run_path(run_id) == run_id \o JsonSuffix

\* path.with_suffix(".tmp"): the final name's last suffix, ".json", replaced.
TmpPathInPlace(path) == path
TmpPath(path) == Stem(path, JsonSuffix) \o TmpSuffix

Exists(dir, name) == name \in DOMAIN dir

\* dir with name bound to content (created or replaced).
Put(dir, name, content) ==
    [n \in DOMAIN dir \cup {name} |-> IF n = name THEN content ELSE dir[n]]

\* dir without name.
Unlink(dir, name) == [n \in DOMAIN dir \ {name} |-> dir[n]]

\* os.rename that refuses to replace an existing file.
RenameNoReplace(dir, src, dst) ==
    IF Exists(dir, dst) THEN Unlink(dir, src)
    ELSE Unlink(Put(dir, dst, dir[src]), src)

\* os.rename(src, dst): dst is atomically replaced by src's content.
Rename(dir, src, dst) ==
    IF src = dst THEN dir ELSE Unlink(Put(dir, dst, dir[src]), src)

\* glob("*.json") over the runs directory.
JsonFiles(dir) == {n \in DOMAIN dir : EndsWith(n, JsonSuffix)}

NoRecord == [run_id |-> <<>>]
None == [kind |-> "None"]
\* sorted(names), and sorted(names, reverse=True), as a sequence.
RECURSIVE Sorted(_, _)
Sorted(names, reverse) ==
    IF names = {} THEN <<>>
    ELSE LET first == CHOOSE n \in names :
                 \A m \in names \ {n} :
                     IF reverse THEN StrLess(m, n) ELSE StrLess(n, m)
         IN <<first>> \o Sorted(names \ {first}, reverse)

\* files[:limit]; limit None is modelled as -1.
Prefix(files, limit) ==
    IF limit < 0 \/ limit >= Len(files) THEN files ELSE SubSeq(files, 1, limit)

\* json.load followed by RunRecord.from_dict on a file's content: the
\* exception raised, "" when a record comes out.
LoadRaises(content) ==
    IF content.kind # "json" THEN "JSONDecodeError"
    ELSE FromDictRaises(content.data)

\* `except (json.JSONDecodeError, TypeError)` of list_runs.
Skipped == {"JSONDecodeError", "TypeError"}

\* The loop of list_runs over files, with the records appended so far: the
\* records of the files that load, in order; a file whose exception the
\* except clause names is skipped, any other exception ends the call.
RECURSIVE LoadAll(_, _, _)
LoadAll(dir, files, records) ==
    IF files = <<>> THEN [raised |-> "", records |-> records]
    ELSE LET raised == LoadRaises(dir[Head(files)])
         IN IF raised = ""
            THEN LoadAll(dir, Tail(files),
                         Append(records, from_dict(dir[Head(files)].data)))
            ELSE IF raised \in Skipped
            THEN LoadAll(dir, Tail(files), records)
            ELSE [raised |-> raised, records |-> <<>>]

\* list_runs: the exception it raises ("" when it returns) and the list it
\* returns.
list_runs(dir, limit, newest_first) ==
    LoadAll(dir, Prefix(Sorted(JsonFiles(dir), newest_first), limit), <<>>)

\* read_run: None for a missing file, else the parsed record; json.load and
\* from_dict raise on a file that holds no record.
read_run(dir, run_id) ==
    IF ~Exists(dir, _run_path(run_id)) THEN None
    ELSE IF LoadRaises(dir[_run_path(run_id)]) = ""
         THEN from_dict(dir[_run_path(run_id)].data)
         ELSE [kind |-> LoadRaises(dir[_run_path(run_id)])]

run_count(dir) == Cardinality(JsonFiles(dir))

run_exists(dir, run_id) == Exists(dir, _run_path(run_id))

(***************************************************************************)
(* Inputs of the Record Store                                              *)
(***************************************************************************)

RunIds == {<<"r", "1">>, <<"r", "1", "-", "a">>, <<"r", "2">>}

\* A valid record per id and build outcome, and that record with one field
\* set to a value the data model forbids.
BadRecords ==
    LET r == RunRecord(<<"r", "1">>, TRUE)
    IN  {[r EXCEPT !.run_id = <<>>],
         [r EXCEPT !.timestamp = ""],
         [r EXCEPT !.timestamp = "yesterday"],
         [r EXCEPT !.input_type = "EPIC"],
         [r EXCEPT !.pipeline_steps_executed =
             [py |-> "tuple", items |-> <<"build", "deploy">>]],
         [r EXCEPT !.fail_category = "cosmic_rays"],
         [r EXCEPT !.is_recursive = TRUE],
         [r EXCEPT !.duration_minutes = -1],
         [r EXCEPT !.tests_passed = -1],
         [r EXCEPT !.tests_failed = -1],
         [r EXCEPT !.lint_errors = -1],
         [r EXCEPT !.type_errors = -1],
         [r EXCEPT !.diff_size_lines = -1],
         [r EXCEPT !.files_created = -1],
         [r EXCEPT !.files_modified = -1],
         [r EXCEPT !.tokens_input = -1],
         [r EXCEPT !.tokens_output = -1],
         [r EXCEPT !.cost_usd = -1],
         [r EXCEPT !.iteration_number = -1]}

RecordInputs ==
    {RunRecord(id, b) : id \in RunIds, b \in BOOLEAN}
        \cup BadRecords

Limits == {-1, 0, 1, 2}

\* What a damaged file under runs/ can hold: text that is not JSON, nothing,
\* JSON that is not an object, an object without run_id, and an object whose
\* pipeline_steps_executed is a number.
InvalidJson == [kind |-> "invalid"]

DamagedContents ==
    {InvalidJson,
     EmptyFile,
     [kind |-> "json", data |-> JsonValue("int")],
     [kind |-> "json", data |-> JsonValue("NoneType")],
     [kind |-> "json", data |-> JsonValue("list")],
     [kind |-> "json", data |-> JsonValue("str")],
     [kind |-> "json", data |-> [build_success |-> TRUE]],
     [kind |-> "json",
      data |-> [run_id |-> <<"r", "1">>,
                pipeline_steps_executed |-> JsonValue("int")]]}

(***************************************************************************)
(* write_run, step by step                                                 *)
(***************************************************************************)

Call(op, arg, result) == [op |-> op, arg |-> arg, result |-> result]

\* The immutability check of write_run: path.exists().
AlreadyStoredNever(dir, record) == FALSE
AlreadyStoredTmp(dir, record) ==
    Exists(dir, TmpPath(_run_path(record.run_id)))
AlreadyStored(dir, record) == Exists(dir, _run_path(record.run_id))

\* write_run up to and including open(tmp_path, "w"): validation, the
\* existence check, and the creation (or truncation) of the temp file.
WriteRunCall(record) ==
    /\ wpc = "idle"
    /\ IF validate_run_record(record) # {}
       THEN /\ last' = Call("write_run", record, "ValidationError")
            /\ UNCHANGED <<runs_dir, wpc, wrec>>
       ELSE IF AlreadyStored(runs_dir, record)
       THEN /\ last' = Call("write_run", record, "RecordExistsError")
            /\ UNCHANGED <<runs_dir, wpc, wrec>>
       ELSE /\ runs_dir' = Put(runs_dir, TmpPath(_run_path(record.run_id)),
                               EmptyFile)
            /\ wpc' = "opened"
            /\ wrec' = record
            /\ last' = Call("write_run", record, "running")
    /\ UNCHANGED <<engine_vars, verdict_vars, metrics_vars, agent_vars, race_vars>>

\* f.write: part of the text has reached the temp file.
WriteChunk ==
    /\ wpc = "opened"
    /\ runs_dir' = Put(runs_dir, TmpPath(_run_path(wrec.run_id)),
                       PartialFile(wrec))
    /\ wpc' = "partial"
    /\ UNCHANGED <<wrec, last>>
    /\ UNCHANGED <<engine_vars, verdict_vars, metrics_vars, agent_vars, race_vars>>

\* Leaving the with block: the whole text is in the temp file.
WriteClose ==
    /\ wpc \in {"opened", "partial"}
    /\ runs_dir' = Put(runs_dir, TmpPath(_run_path(wrec.run_id)),
                       to_json(wrec))
    /\ wpc' = "written"
    /\ UNCHANGED <<wrec, last>>
    /\ UNCHANGED <<engine_vars, verdict_vars, metrics_vars, agent_vars, race_vars>>

\* tmp_path.rename(path); return path.
WriteRename ==
    /\ wpc = "written"
    /\ runs_dir' = Rename(runs_dir, TmpPath(_run_path(wrec.run_id)),
                          _run_path(wrec.run_id))
    /\ wpc' = "idle"
    /\ wrec' = NoRecord
    /\ last' = Call("write_run", wrec, "ok")
    /\ UNCHANGED <<engine_vars, verdict_vars, metrics_vars, agent_vars, race_vars>>

\* An exception inside the try block (the write, the close or the rename
\* fails): the temp file is removed and the exception propagates.
WriteException ==
    /\ wpc \in {"opened", "partial", "written"}
    /\ runs_dir' = IF Exists(runs_dir, TmpPath(_run_path(wrec.run_id)))
                   THEN Unlink(runs_dir, TmpPath(_run_path(wrec.run_id)))
                   ELSE runs_dir
    /\ wpc' = "idle"
    /\ wrec' = NoRecord
    /\ last' = Call("write_run", wrec, "OSError")
    /\ UNCHANGED <<engine_vars, verdict_vars, metrics_vars, agent_vars, race_vars>>

\* The process dies between two steps of write_run: no handler runs, the
\* files stay as they are.
Crash ==
    /\ wpc # "idle"
    /\ wpc' = "idle"
    /\ wrec' = NoRecord
    /\ last' = Call("crash", wrec, "killed")
    /\ UNCHANGED runs_dir
    /\ UNCHANGED <<engine_vars, verdict_vars, metrics_vars, agent_vars, race_vars>>

ReadRun(run_id) ==
    /\ wpc = "idle"
    /\ last' = Call("read_run", run_id, read_run(runs_dir, run_id))
    /\ UNCHANGED <<runs_dir, wpc, wrec>>
    /\ UNCHANGED <<engine_vars, verdict_vars, metrics_vars, agent_vars, race_vars>>

ListRuns(limit, newest_first) ==
    /\ wpc = "idle"
    /\ last' = Call("list_runs", <<limit, newest_first>>,
                    list_runs(runs_dir, limit, newest_first))
    /\ UNCHANGED <<runs_dir, wpc, wrec>>
    /\ UNCHANGED <<engine_vars, verdict_vars, metrics_vars, agent_vars, race_vars>>

RunCount ==
    /\ wpc = "idle"
    /\ last' = Call("run_count", <<>>, run_count(runs_dir))
    /\ UNCHANGED <<runs_dir, wpc, wrec>>
    /\ UNCHANGED <<engine_vars, verdict_vars, metrics_vars, agent_vars, race_vars>>

RunExists(run_id) ==
    /\ wpc = "idle"
    /\ last' = Call("run_exists", run_id, run_exists(runs_dir, run_id))
    /\ UNCHANGED <<runs_dir, wpc, wrec>>
    /\ UNCHANGED <<engine_vars, verdict_vars, metrics_vars, agent_vars, race_vars>>

\* Outside the program: a file under runs/ is damaged, or a damaged file
\* appears there.
Damage(run_id, content) ==
    /\ wpc = "idle"
    /\ runs_dir' = Put(runs_dir, _run_path(run_id), content)
    /\ UNCHANGED <<wpc, wrec, last>>
    /\ UNCHANGED <<engine_vars, verdict_vars, metrics_vars, agent_vars, race_vars>>

\* ContextHub(base_path) on a fresh directory: runs/ exists and is empty.
StoreInit ==
    /\ runs_dir = <<>>
    /\ wpc = "idle"
    /\ wrec = NoRecord
    /\ last = Call("init", <<>>, None)

StoreNext ==
    \/ \E record \in RecordInputs : WriteRunCall(record)
    \/ WriteChunk
    \/ WriteClose
    \/ WriteRename
    \/ WriteException
    \/ Crash
    \/ \E run_id \in RunIds : ReadRun(run_id)
    \/ \E limit \in Limits, newest_first \in BOOLEAN :
           ListRuns(limit, newest_first)
    \/ RunCount
    \/ \E run_id \in RunIds : RunExists(run_id)


(***************************************************************************)
(* Findings and parameters (lib/analysis_agent.py, lib/analysis_config.py) *)
(***************************************************************************)

Finding(severity, category, message) ==
    [severity |-> severity, category |-> category, message |-> message]

\* The findings AnalysisAgent._analyze emits, with the messages it formats.
SlowCycle == Finding("warning", "duration",
                     "Median cycle time 35.0m exceeds target 30m")
LowSuccess == Finding("critical", "reliability",
                      "Build success rate 60% is below target 90%")
AllSucceeded == Finding("info", "reliability",
                        "All builds succeeded in this window")
HighLint == Finding("warning", "hygiene",
                    "Average lint errors 8.0 exceeds target 5")
HighTypeErrors == Finding("warning", "hygiene",
                          "Average type errors 1.0 exceeds target 0")
HighManual == Finding("warning", "autonomy",
                      "Manual intervention rate 30% exceeds target 10%")
DegradingReliability == Finding("critical", "trend",
                    "Build reliability is trending downward (degrading)")
DegradingDuration == Finding("warning", "trend",
                    "Cycle time is trending upward (degrading)")
SlowerCycle == Finding("warning", "duration",
                       "Median cycle time 40.0m exceeds target 30m")

\* needle in message.lower() (and needle in message, for the lower-case
\* needles the rules use), over the messages above.
Contains(message, needle) ==
    CASE needle = "below target" -> message = LowSuccess.message
      [] needle = "lint" -> message = HighLint.message
      [] needle = "type error" -> message = HighTypeErrors.message

\* AnalysisConfig(): the defaults, minutes in tenths and rates in hundredths.
AnalysisConfig ==
    [analysis_window_size |-> 10,
     target_median_cycle_time |-> 300,
     target_build_success_rate |-> 90,
     target_manual_intervention_rate |-> 10,
     target_max_lint_errors |-> 5,
     target_max_type_errors |-> 0]

\* A parameter config is its "version" and "applied_from_proposal" keys and
\* the leaves of its nested mappings, keyed by dot-path ("created" and
\* "description" hold the date and a text derived from the proposal id).
\* params.get(section, {}).get(key, default):
Get(params, path, default) ==
    IF path \in DOMAIN params.values THEN params.values[path] ELSE default

\* `latest_parameters() or {}` when the store holds no config.
EmptyParams == [values |-> <<>>]

(***************************************************************************)
(* Rules (lib/proposal_engine.py)                                          *)
(***************************************************************************)

ParameterDiff(path, old_value, new_value, reason) ==
    [path |-> path, old_value |-> old_value, new_value |-> new_value,
     reason |-> reason]

NoDiff == [path |-> ""]

\* round(current * 1.1, 1) on tenths of a minute; agrees with Python's
\* float result on every value reachable from 30 within the model's bounds.
RelaxByTenPercent(current) == (current * 11 + 5) \div 10

Max(a, b) == IF a >= b THEN a ELSE b
Min(a, b) == IF a <= b THEN a ELSE b

_rule_slow_cycle_time(finding, config, params) ==
    IF finding.category # "duration"
          \/ finding.severity \notin {"warning", "critical"}
    THEN NoDiff
    ELSE LET current == Get(params, "targets.median_cycle_time_minutes",
                            config.target_median_cycle_time)
         IN ParameterDiff("targets.median_cycle_time_minutes", current,
                          RelaxByTenPercent(current), finding.message)

_rule_low_success_rate(finding, config, params) ==
    IF finding.category # "reliability" \/ finding.severity # "critical"
    THEN NoDiff
    ELSE IF ~Contains(finding.message, "below target")
    THEN NoDiff
    ELSE LET current == Get(params, "targets.build_success_rate",
                            config.target_build_success_rate)
         IN ParameterDiff("targets.build_success_rate", current,
                          Max(50, current - 5), finding.message)

_rule_high_lint(finding, config, params) ==
    IF finding.category # "hygiene" \/ ~Contains(finding.message, "lint")
    THEN NoDiff
    ELSE LET current == Get(params, "targets.max_lint_errors_per_run",
                            config.target_max_lint_errors)
         IN ParameterDiff("targets.max_lint_errors_per_run", current,
                          current + 2, finding.message)

_rule_high_type_errors(finding, config, params) ==
    IF finding.category # "hygiene"
          \/ ~Contains(finding.message, "type error")
    THEN NoDiff
    ELSE LET current == Get(params, "targets.max_type_errors_per_run",
                            config.target_max_type_errors)
         IN ParameterDiff("targets.max_type_errors_per_run", current,
                          current + 1, finding.message)

_rule_high_manual_intervention(finding, config, params) ==
    IF finding.category # "autonomy"
    THEN NoDiff
    ELSE LET current == Get(params, "targets.manual_intervention_rate",
                            config.target_manual_intervention_rate)
         IN ParameterDiff("targets.manual_intervention_rate", current,
                          Min(100, current + 5), finding.message)

_rule_degrading_trend(finding, config, params) ==
    IF finding.category # "trend" \/ finding.severity # "critical"
    THEN NoDiff
    ELSE LET current == Get(params, "observer.analysis_window_size",
                            config.analysis_window_size)
         IN IF current >= 30 THEN NoDiff
            ELSE ParameterDiff("observer.analysis_window_size", current,
                               current + 5, finding.message)

\* RULES[i](finding, config, params), in evaluation order.
NumRules == 6
Rule(i, finding, config, params) ==
    CASE i = 1 -> _rule_slow_cycle_time(finding, config, params)
      [] i = 2 -> _rule_low_success_rate(finding, config, params)
      [] i = 3 -> _rule_high_lint(finding, config, params)
      [] i = 4 -> _rule_high_type_errors(finding, config, params)
      [] i = 5 -> _rule_high_manual_intervention(finding, config, params)
      [] i = 6 -> _rule_degrading_trend(finding, config, params)

\* The double loop without the test on seen_paths.
RECURSIVE ApplyRulesUnseen(_, _, _, _, _, _)
ApplyRulesUnseen(findings, k, i, config, params, diffs) ==
    IF k > Len(findings) THEN diffs
    ELSE IF i > NumRules
    THEN ApplyRulesUnseen(findings, k + 1, 1, config, params, diffs)
    ELSE LET diff == Rule(i, findings[k], config, params)
         IN ApplyRulesUnseen(findings, k, i + 1, config, params,
                             IF diff # NoDiff THEN Append(diffs, diff)
                             ELSE diffs)

\* The double loop of generate_proposal from (finding k, rule i) on, with
\* the diffs kept so far; a diff whose path was seen is dropped.
RECURSIVE ApplyRules(_, _, _, _, _, _)
ApplyRules(findings, k, i, config, params, diffs) ==
    IF k > Len(findings) THEN diffs
    ELSE IF i > NumRules
    THEN ApplyRules(findings, k + 1, 1, config, params, diffs)
    ELSE LET diff == Rule(i, findings[k], config, params)
             seen_paths == {diffs[j].path : j \in 1..Len(diffs)}
         IN ApplyRules(findings, k, i + 1, config, params,
                       IF diff # NoDiff /\ diff.path \notin seen_paths
                       THEN Append(diffs, diff) ELSE diffs)

(***************************************************************************)
(* Versions                                                                *)
(***************************************************************************)

Digits == <<"0", "1", "2", "3", "4", "5", "6", "7", "8", "9">>

IsDigit(c) == \E d \in 1..10 : Digits[d] = c

DigitValue(c) == (CHOOSE d \in 1..10 : Digits[d] = c) - 1

\* str(n) for n >= 0.
RECURSIVE Str(_)
Str(n) == IF n < 10 THEN <<Digits[n + 1]>>
          ELSE Str(n \div 10) \o <<Digits[(n % 10) + 1]>>

\* The length of the longest prefix of s made of digits: what \d+ consumes.
RECURSIVE DigitRun(_)
DigitRun(s) ==
    IF s # <<>> /\ IsDigit(Head(s)) THEN 1 + DigitRun(Tail(s)) ELSE 0

\* int(s) for a non-empty string of digits.
RECURSIVE Int_(_)
Int_(s) == IF Len(s) = 1 THEN DigitValue(s[1])
           ELSE 10 * Int_(SubSeq(s, 1, Len(s) - 1)) + DigitValue(s[Len(s)])

Drop(s, n) == SubSeq(s, n + 1, Len(s))

\* re.match(r"v?(\d+)\.(\d+)\.(\d+)", version): the three groups as
\* integers, or <<>> when the pattern does not match at the start.
MatchVersion(version) ==
    LET s1 == IF version # <<>> /\ Head(version) = "v"
              THEN Tail(version) ELSE version
        n1 == DigitRun(s1)
        s2 == Drop(s1, n1)
        s3 == IF s2 # <<>> THEN Tail(s2) ELSE <<>>
        n2 == DigitRun(s3)
        s4 == Drop(s3, n2)
        s5 == IF s4 # <<>> THEN Tail(s4) ELSE <<>>
        n3 == DigitRun(s5)
    IN IF /\ n1 > 0
          /\ s2 # <<>> /\ Head(s2) = "."
          /\ n2 > 0
          /\ s4 # <<>> /\ Head(s4) = "."
          /\ n3 > 0
       THEN <<Int_(SubSeq(s1, 1, n1)), Int_(SubSeq(s3, 1, n2)),
              Int_(SubSeq(s5, 1, n3))>>
       ELSE <<>>

\* f"v{major}.{minor}.{patch}"
FormatVersion(major, minor, patch) ==
    <<"v">> \o Str(major) \o <<".">> \o Str(minor) \o <<".">> \o Str(patch)

bump_version(version, impact) ==
    LET match == MatchVersion(version)
    IN IF match = <<>> THEN FormatVersion(0, 2, 0)
       ELSE IF impact = "low"
       THEN FormatVersion(match[1], match[2], match[3] + 1)
       ELSE FormatVersion(match[1], match[2] + 1, 0)

\* The impact that looks at the number of diffs alone.
compute_impact_by_size(diffs, findings) ==
    IF Len(diffs) > 2 THEN "medium" ELSE "low"

compute_impact(diffs, findings) ==
    IF \E k \in 1..Len(findings) : findings[k].severity = "critical"
    THEN "high"
    ELSE IF Len(diffs) > 2 THEN "medium"
    ELSE "low"

(***************************************************************************)
(* Parameter and proposal stores (lib/context_hub.py)                      *)
(***************************************************************************)

write_parameters(dir, version, config) ==
    Put(dir, version \o JsonSuffix, config)

read_parameters(dir, version) ==
    IF Exists(dir, version \o JsonSuffix) THEN dir[version \o JsonSuffix]
    ELSE None

\* sorted(names, reverse=True)[0] for a non-empty set of names.
RECURSIVE Last(_)
Last(names) ==
    LET n == CHOOSE x \in names : TRUE
    IN IF names = {n} THEN n
       ELSE LET m == Last(names \ {n})
            IN IF StrLess(m, n) THEN n ELSE m

\* The config in the lexicographically last *.json file, or None.
latest_parameters(dir) ==
    IF JsonFiles(dir) = {} THEN None
    ELSE dir[Last(JsonFiles(dir))]

write_proposal(dir, proposal_id, content) == Put(dir, proposal_id, content)

\* ContextHub.read_proposal: the stored dict, or None.
read_proposal(dir, proposal_id) ==
    IF Exists(dir, proposal_id) THEN dir[proposal_id] ELSE None

\* Proposal ids are "prop-<date>-<time>-<random>"; the model numbers them in
\* generation order, which is their sort order.
RECURSIVE Descending(_)
Descending(ids) ==
    IF ids = {} THEN <<>>
    ELSE LET top == CHOOSE i \in ids : \A j \in ids : j <= i
         IN <<top>> \o Descending(ids \ {top})

list_proposals(dir) == Descending(DOMAIN dir)

(***************************************************************************)
(* Proposal Engine (lib/proposal_engine.py)                                *)
(***************************************************************************)

\* Proposal.is_pending
is_pending(proposal) == proposal.status = "pending"

\* An id generator that returns the id of the call before it again.
generate_proposal_id_repeated ==
    IF next_pid > 1 THEN next_pid - 1 ELSE next_pid

\* generate_proposal_id(): an id no earlier call returned.
generate_proposal_id == next_pid

\* pending_proposals(): the pending ones among list_proposals(), in order.
RECURSIVE SelectPending(_, _)
SelectPending(dir, ids) ==
    IF ids = <<>> THEN <<>>
    ELSE IF is_pending(dir[Head(ids)])
         THEN <<Head(ids)>> \o SelectPending(dir, Tail(ids))
         ELSE SelectPending(dir, Tail(ids))

pending_proposals_none(dir) == <<>>
pending_proposals_all(dir) == list_proposals(dir)
pending_proposals(dir) == SelectPending(dir, list_proposals(dir))

_current_version(dir) ==
    LET params == latest_parameters(dir)
    IN IF params # None /\ "version" \in DOMAIN params
       THEN params.version
       ELSE IF JsonFiles(dir) # {}
       THEN Stem(Last(JsonFiles(dir)), JsonSuffix)
       ELSE FormatVersion(0, 1, 0)

\* _apply_diffs: every diff's new_value stored at its dot-path, the levels
\* above it created when missing, every other leaf kept.
RECURSIVE _apply_diffs(_, _)
_apply_diffs(values, diffs) ==
    IF diffs = <<>> THEN values
    ELSE _apply_diffs(Put(values, Head(diffs).path, Head(diffs).new_value),
                      Tail(diffs))

\* The Proposal generate_proposal builds.
Proposal(proposal_id, findings, diffs, current_version) ==
    [proposal_id |-> proposal_id,
     created_at |-> "now",
     status |-> "pending",
     findings_summary |-> [k \in 1..Len(findings) |-> findings[k].message],
     parameter_diffs |-> diffs,
     impact_level |-> compute_impact(diffs, findings),
     version_from |-> current_version,
     version_to |-> bump_version(current_version,
                                 compute_impact(diffs, findings)),
     resolved_by |-> "",
     resolved_at |-> "",
     rejection_reason |-> ""]

\* A call of the engine and its outcome: the exception raised ("" when it
\* returned) and the value returned.
ECall(op, arg, raised, returned) ==
    [op |-> op, arg |-> arg, raised |-> raised, returned |-> returned]

\* `latest_parameters() or {}`
ParamsOrEmpty(dir) ==
    IF latest_parameters(dir) = None THEN EmptyParams
    ELSE latest_parameters(dir)

generate_proposal(findings) ==
    IF pending_proposals(proposals_dir) # <<>>
    THEN /\ elast' = ECall("generate_proposal", findings,
                           "PendingProposalExists", None)
         /\ UNCHANGED <<parameters_dir, proposals_dir, next_pid>>
    ELSE LET diffs == ApplyRules(findings, 1, 1, AnalysisConfig,
                                 ParamsOrEmpty(parameters_dir), <<>>)
             proposal == Proposal(generate_proposal_id, findings, diffs,
                                  _current_version(parameters_dir))
         IN IF diffs = <<>>
            THEN /\ elast' = ECall("generate_proposal", findings, "", None)
                 /\ UNCHANGED <<parameters_dir, proposals_dir, next_pid>>
            ELSE /\ proposals_dir' = write_proposal(proposals_dir,
                                         proposal.proposal_id, proposal)
                 /\ next_pid' = next_pid + 1
                 /\ elast' = ECall("generate_proposal", findings, "",
                                   proposal)
                 /\ UNCHANGED parameters_dir

\* `if not proposal.is_pending: raise ProposalNotPending` of approve_proposal
\* and of reject_proposal.
ApproveRefusesNothing(proposal) == FALSE
ApproveRefuses(proposal) == ~is_pending(proposal)

RejectRefusesNothing(proposal) == FALSE
RejectRefuses(proposal) == ~is_pending(proposal)

approve_proposal(proposal_id, approved_by) ==
    LET data == read_proposal(proposals_dir, proposal_id)
    IN IF data = None
       THEN /\ elast' = ECall("approve_proposal", proposal_id,
                              "NoProposalFound", None)
            /\ UNCHANGED <<parameters_dir, proposals_dir, next_pid>>
       ELSE IF ApproveRefuses(data)
       THEN /\ elast' = ECall("approve_proposal", proposal_id,
                              "ProposalNotPending", None)
            /\ UNCHANGED <<parameters_dir, proposals_dir, next_pid>>
       ELSE LET params == ParamsOrEmpty(parameters_dir)
                new_params ==
                    [version |-> data.version_to,
                     applied_from_proposal |-> proposal_id,
                     values |-> _apply_diffs(params.values,
                                             data.parameter_diffs)]
                proposal == [data EXCEPT !.status = "approved",
                                         !.resolved_by = approved_by,
                                         !.resolved_at = "now"]
            IN /\ parameters_dir' = write_parameters(parameters_dir,
                                        data.version_to, new_params)
               /\ proposals_dir' = write_proposal(proposals_dir,
                                        proposal.proposal_id, proposal)
               /\ elast' = ECall("approve_proposal", proposal_id, "",
                                 proposal)
               /\ UNCHANGED next_pid

\* A rejection that applies the proposal as an approval does.
reject_proposal_applying(proposal_id, reason, rejected_by) ==
    approve_proposal(proposal_id, rejected_by)

reject_proposal(proposal_id, reason, rejected_by) ==
    LET data == read_proposal(proposals_dir, proposal_id)
    IN IF data = None
       THEN /\ elast' = ECall("reject_proposal", proposal_id,
                              "NoProposalFound", None)
            /\ UNCHANGED <<parameters_dir, proposals_dir, next_pid>>
       ELSE IF RejectRefuses(data)
       THEN /\ elast' = ECall("reject_proposal", proposal_id,
                              "ProposalNotPending", None)
            /\ UNCHANGED <<parameters_dir, proposals_dir, next_pid>>
       ELSE LET proposal == [data EXCEPT !.status = "rejected",
                                         !.resolved_by = rejected_by,
                                         !.resolved_at = "now",
                                         !.rejection_reason = reason]
            IN /\ proposals_dir' = write_proposal(proposals_dir,
                                        proposal.proposal_id, proposal)
               /\ elast' = ECall("reject_proposal", proposal_id, "",
                                 proposal)
               /\ UNCHANGED <<parameters_dir, next_pid>>

(***************************************************************************)
(* Inputs of the Proposal Engine                                           *)
(***************************************************************************)

\* The number of proposals a behaviour generates.
MaxProposals == 2

\* The number of proposals a chain of approvals generates.
MaxChain == 11

FindingLists ==
    {<<>>,
     <<AllSucceeded>>,
     <<SlowCycle>>,
     <<SlowCycle, SlowCycle>>,
     <<LowSuccess>>,
     <<HighManual, DegradingDuration>>,
     <<SlowCycle, HighLint, HighTypeErrors>>,
     <<DegradingReliability, LowSuccess>>}

ChainFindingLists == {<<SlowCycle>>, <<LowSuccess>>}

\* The number of proposals a behaviour of the rules generates.
MaxRuleProposals == 2

\* Findings for the rules: the lists above, and lists in which two
\* findings with different messages hit the same path.
RuleFindingLists ==
    FindingLists \cup {<<SlowCycle, SlowerCycle>>,
                       <<SlowerCycle, HighLint, SlowCycle>>}

\* The config the tests and the operator seed the store with, as v0.1.0.
SeedParams ==
    [version |-> FormatVersion(0, 1, 0),
     values |-> [path \in {"targets.median_cycle_time_minutes",
                           "targets.build_success_rate",
                           "targets.manual_intervention_rate",
                           "targets.max_lint_errors_per_run",
                           "targets.max_type_errors_per_run",
                           "observer.analysis_window_size",
                           "observer.trend_threshold"} |->
        CASE path = "targets.median_cycle_time_minutes" -> 300
          [] path = "targets.build_success_rate" -> 90
          [] path = "targets.manual_intervention_rate" -> 10
          [] path = "targets.max_lint_errors_per_run" -> 5
          [] path = "targets.max_type_errors_per_run" -> 0
          [] path = "observer.analysis_window_size" -> 10
          [] path = "observer.trend_threshold" -> 10]]

(***************************************************************************)
(* Verdict Engine (lib/verdict_engine.py)                                  *)
(***************************************************************************)

\* Python values in a sidecar: a dict is a function on its keys, any other
\* value a record with its type under "py" (a list also has its items);
\* numbers, booleans and strings at the leaves the checks read are
\* themselves.
PyNone == JsonValue("NoneType")
PyList(items) == [py |-> "list", items |-> items]
EmptyDict == <<>>

\* d.get(key, default) on a dict d.
DictGet(d, key, default) == IF key \in DOMAIN d THEN d[key] ELSE default

\* A registry in which secrets_clean is advisory.
CHECK_REGISTRY_secrets_advisory ==
    <<<<"build_success", "Build completed successfully", "blocking">>,
      <<"tests_passing", "All tests passing", "blocking">>,
      <<"lint_clean", "No lint errors", "advisory">>,
      <<"type_clean", "No type errors", "advisory">>,
      <<"arch_p0_clear", "No P0 architecture violations", "blocking">>,
      <<"code_review_clear", "No critical code review findings",
        "blocking">>,
      <<"secrets_clean", "No secret scan failures", "advisory">>>>

\* (check_id, description, severity)
CHECK_REGISTRY ==
    <<<<"build_success", "Build completed successfully", "blocking">>,
      <<"tests_passing", "All tests passing", "blocking">>,
      <<"lint_clean", "No lint errors", "advisory">>,
      <<"type_clean", "No type errors", "advisory">>,
      <<"arch_p0_clear", "No P0 architecture violations", "blocking">>,
      <<"code_review_clear", "No critical code review findings",
        "blocking">>,
      <<"secrets_clean", "No secret scan failures", "blocking">>>>

\* Every blocking check taken as fixable by a re-run.
RETRY_ELIGIBLE_CHECKS_all ==
    {"build_success", "tests_passing", "arch_p0_clear", "code_review_clear",
     "secrets_clean"}

RETRY_ELIGIBLE_CHECKS == {"build_success", "tests_passing", "arch_p0_clear"}

\* The outcome of evaluating a check: the exception raised ("" when it
\* returned) and the truth of the value returned.
Passed(passed) == [raised |-> "", passed |-> passed]
Raised(exception) == [raised |-> exception, passed |-> FALSE]

\* The test a check makes on its sub-section of quality.
SubSectionTest(check_id, sub) ==
    CASE check_id = "tests_passing" ->
            /\ DictGet(sub, "success", FALSE)
            /\ DictGet(sub, "pytest_failed", 0) = 0
      [] check_id = "lint_clean" -> DictGet(sub, "ruff_issues", 0) = 0
      [] check_id = "arch_p0_clear" -> DictGet(sub, "p0_count", 0) = 0
      [] check_id = "code_review_clear" ->
            DictGet(sub, "critical_count", 0) = 0
      [] check_id = "secrets_clean" -> DictGet(sub, "status", PyNone) # "FAIL"

\* A check on a sub-section of quality: `sub = quality.get(key)`, pass when
\* it is None, else the test on the sub-section, whose .get needs a dict.
SubSectionCheck(check_id, quality, key) ==
    IF ~IsDict(quality) THEN Raised("AttributeError")
    ELSE LET sub == DictGet(quality, key, PyNone)
         IN IF sub = PyNone THEN Passed(TRUE)
            ELSE IF ~IsDict(sub) THEN Raised("AttributeError")
            ELSE Passed(SubSectionTest(check_id, sub))

\* The build_success check that takes the build step as always run.
BuildSuccessCheckAnyStep(error_taxonomy, steps) ==
    Passed(DictGet(error_taxonomy, "fail_category", PyNone) # "build")

\* The build_success check: `"build" not in steps` raises TypeError when
\* steps is no list.
BuildSuccessCheck(error_taxonomy, steps) ==
    IF steps.py # "list" THEN Raised("TypeError")
    ELSE IF ~\E k \in 1..Len(steps.items) : steps.items[k] = "build"
    THEN Passed(TRUE)
    ELSE Passed(DictGet(error_taxonomy, "fail_category", PyNone) # "build")

_evaluate_check(check_id, quality, error_taxonomy, execution_ctx) ==
    IF ~IsDict(error_taxonomy) \/ ~IsDict(execution_ctx)
    THEN Raised("AttributeError")
    ELSE LET steps == DictGet(execution_ctx, "steps_completed", PyList(<<>>))
         IN
    CASE check_id = "build_success" ->
            BuildSuccessCheck(error_taxonomy, steps)
      [] check_id \in {"tests_passing", "lint_clean"} ->
            SubSectionCheck(check_id, quality, "validation")
      [] check_id = "type_clean" -> Passed(TRUE)
      [] check_id = "arch_p0_clear" ->
            SubSectionCheck(check_id, quality, "cursor_audit")
      [] check_id = "code_review_clear" ->
            SubSectionCheck(check_id, quality, "code_review")
      [] check_id = "secrets_clean" ->
            SubSectionCheck(check_id, quality, "pre_commit_safety")
      [] OTHER -> Passed(TRUE)

\* _run_checks from registry entry i on, with the results so far: the first
\* exception ends the loop.
RECURSIVE RunChecksFrom(_, _, _)
RunChecksFrom(sidecar, i, results) ==
    IF i > Len(CHECK_REGISTRY) THEN [raised |-> "", results |-> results]
    ELSE LET quality == DictGet(sidecar, "quality", EmptyDict)
             error_taxonomy == DictGet(sidecar, "error_taxonomy", EmptyDict)
             execution_ctx ==
                 DictGet(sidecar, "execution_context", EmptyDict)
             outcome == _evaluate_check(CHECK_REGISTRY[i][1], quality,
                                        error_taxonomy, execution_ctx)
         IN IF outcome.raised # ""
            THEN [raised |-> outcome.raised, results |-> <<>>]
            ELSE RunChecksFrom(sidecar, i + 1,
                     Append(results,
                            [check_id |-> CHECK_REGISTRY[i][1],
                             description |-> CHECK_REGISTRY[i][2],
                             severity |-> CHECK_REGISTRY[i][3],
                             passed |-> outcome.passed]))

_run_checks(sidecar) == RunChecksFrom(sidecar, 1, <<>>)

\* The characters of a check id, for sorted().
Chars(check_id) ==
    CASE check_id = "build_success" ->
           <<"b", "u", "i", "l", "d", "_", "s", "u", "c", "c", "e", "s", "s">>
      [] check_id = "tests_passing" ->
           <<"t", "e", "s", "t", "s", "_", "p", "a", "s", "s", "i", "n", "g">>
      [] check_id = "lint_clean" ->
           <<"l", "i", "n", "t", "_", "c", "l", "e", "a", "n">>
      [] check_id = "type_clean" ->
           <<"t", "y", "p", "e", "_", "c", "l", "e", "a", "n">>
      [] check_id = "arch_p0_clear" ->
           <<"a", "r", "c", "h", "_", "p", "0", "_", "c", "l", "e", "a", "r">>
      [] check_id = "code_review_clear" ->
           <<"c", "o", "d", "e", "_", "r", "e", "v", "i", "e", "w", "_", "c",
             "l", "e", "a", "r">>
      [] check_id = "secrets_clean" ->
           <<"s", "e", "c", "r", "e", "t", "s", "_", "c", "l", "e", "a", "n">>

\* sorted(ids) for a set of check ids.
RECURSIVE SortedIds(_)
SortedIds(ids) ==
    IF ids = {} THEN <<>>
    ELSE LET first == CHOOSE a \in ids :
                 \A b \in ids \ {a} : StrLess(Chars(a), Chars(b))
         IN <<first>> \o SortedIds(ids \ {first})

\* ",".join(check_ids)
RECURSIVE Join(_)
Join(check_ids) ==
    IF check_ids = <<>> THEN ""
    ELSE IF Len(check_ids) = 1 THEN check_ids[1]
    ELSE check_ids[1] \o "," \o Join(Tail(check_ids))

\* hashlib.sha256(payload.encode()).hexdigest()[:16], on every payload the
\* blocking check ids can form.
Sha256Hex16(payload) ==
    CASE payload = "arch_p0_clear"
           -> "a293b81a4ec28395"
      [] payload = "build_success"
           -> "b5a2defd2bf319a8"
      [] payload = "code_review_clear"
           -> "0937f423e7ee3ab6"
      [] payload = "secrets_clean"
           -> "dee2ba34bfe26c78"
      [] payload = "tests_passing"
           -> "12aba2e07703e2a1"
      [] payload = "arch_p0_clear,build_success"
           -> "7250036f592abbef"
      [] payload = "arch_p0_clear,code_review_clear"
           -> "071ba41c9f91a784"
      [] payload = "arch_p0_clear,secrets_clean"
           -> "a9c46c95f73c2b76"
      [] payload = "arch_p0_clear,tests_passing"
           -> "6ab5cd84ada47585"
      [] payload = "build_success,code_review_clear"
           -> "b9a8f5fab8a6918b"
      [] payload = "build_success,secrets_clean"
           -> "70d17a77ed63d6cc"
      [] payload = "build_success,tests_passing"
           -> "ecc28f0b2650c913"
      [] payload = "code_review_clear,secrets_clean"
           -> "157770a74b389b7f"
      [] payload = "code_review_clear,tests_passing"
           -> "2d25302a59f3a25b"
      [] payload = "secrets_clean,tests_passing"
           -> "0f4367b011cc9496"
      [] payload = "arch_p0_clear,build_success,code_review_clear"
           -> "5b751b048e68a809"
      [] payload = "arch_p0_clear,build_success,secrets_clean"
           -> "7c4fdd6795b463fb"
      [] payload = "arch_p0_clear,build_success,tests_passing"
           -> "7ac5e0f735c386d0"
      [] payload = "arch_p0_clear,code_review_clear,secrets_clean"
           -> "aac190d991c121ee"
      [] payload = "arch_p0_clear,code_review_clear,tests_passing"
           -> "6c5f2ab72ae8a52e"
      [] payload = "arch_p0_clear,secrets_clean,tests_passing"
           -> "2a70397fefb0a39b"
      [] payload = "build_success,code_review_clear,secrets_clean"
           -> "c041cbd531a6b16e"
      [] payload = "build_success,code_review_clear,tests_passing"
           -> "e2b10edf39e84432"
      [] payload = "build_success,secrets_clean,tests_passing"
           -> "890b047270d47b27"
      [] payload = "code_review_clear,secrets_clean,tests_passing"
           -> "333e5bb778e75982"
      [] payload = "arch_p0_clear,build_success,code_review_clear,secrets_clean"
           -> "4243e67a499e6bcf"
      [] payload = "arch_p0_clear,build_success,code_review_clear,tests_passing"
           -> "f72dd9a7f16926d0"
      [] payload = "arch_p0_clear,build_success,secrets_clean,tests_passing"
           -> "205fdda4b62d0a98"
      [] payload = "arch_p0_clear,code_review_clear,secrets_clean,tests_passing"
           -> "563e3025447aa56f"
      [] payload = "build_success,code_review_clear,secrets_clean,tests_passing"
           -> "543cf1be8e1539a1"
      [] payload = "arch_p0_clear,build_success,code_review_clear,secrets_clean,tests_passing"
           -> "c07a5e6c42c52ff8"

\* A signature of the first blocking failure alone.
_compute_failure_signature_first(blocking_failures) ==
    Sha256Hex16(blocking_failures[1])

\* _compute_failure_signature on the check ids of the blocking failures.
_compute_failure_signature(blocking_failures) ==
    Sha256Hex16(Join(SortedIds(
        {blocking_failures[k] : k \in 1..Len(blocking_failures)})))

\* The action _generate_fix_hints names for a failed blocking check.
FixAction(check_id) ==
    CASE check_id = "tests_passing" -> "fix_failing_tests"
      [] check_id = "build_success" -> "fix_build_error"
      [] check_id = "arch_p0_clear" -> "fix_architecture_violation"
      [] check_id = "code_review_clear" -> "fix_critical_review_findings"
      [] check_id = "secrets_clean" -> "remove_exposed_secrets"

\* failed_tests[:10]
MaxScope == 10

\* _generate_fix_hints: one hint per blocking failure, in order (the detail
\* text of a hint is left out); slicing failed_test_names raises TypeError
\* when it is no list.
_generate_fix_hints(sidecar, blocking_failures) ==
    LET failed_tests == DictGet(sidecar, "failed_test_names", PyList(<<>>))
        ids == {blocking_failures[k] : k \in 1..Len(blocking_failures)}
    IN IF "tests_passing" \in ids /\ failed_tests.py # "list"
       THEN [raised |-> "TypeError", hints |-> <<>>]
       ELSE [raised |-> "",
             hints |-> [k \in 1..Len(blocking_failures) |->
                 [check_id |-> blocking_failures[k],
                  action |-> FixAction(blocking_failures[k]),
                  suggested_scope |->
                      IF blocking_failures[k] = "tests_passing"
                      THEN Prefix(failed_tests.items, MaxScope)
                      ELSE <<>>]]]

\* A call of generate_verdict that returned a verdict document, and one
\* that raised.
Returned(verdict) == [raised |-> "", verdict |-> verdict]
NoVerdict == [schema_version |-> ""]
Raises(exception) == [raised |-> exception, verdict |-> NoVerdict]

\* A degraded verdict that fails closed.
_degraded_verdict_closed(artifact_id, reason) ==
    [schema_version |-> "verdict.v1",
     artifact_id |-> artifact_id,
     generated_at |-> "now",
     verdict |-> "fail",
     degraded |-> TRUE,
     degraded_reason |-> reason,
     check_results |-> <<>>,
     blocking_failures |-> <<>>,
     advisory_failures |-> <<>>,
     retry_eligible |-> FALSE,
     failure_signature |-> "",
     fix_hints |-> <<>>]

_degraded_verdict(artifact_id, reason) ==
    [schema_version |-> "verdict.v1",
     artifact_id |-> artifact_id,
     generated_at |-> "now",
     verdict |-> "pass",
     degraded |-> TRUE,
     degraded_reason |-> reason,
     check_results |-> <<>>,
     blocking_failures |-> <<>>,
     advisory_failures |-> <<>>,
     retry_eligible |-> FALSE,
     failure_signature |-> "",
     fix_hints |-> <<>>]

\* `not sidecar or not isinstance(sidecar, dict)`
MissingOrMalformed(sidecar) == ~IsDict(sidecar) \/ sidecar = EmptyDict

generate_verdict(artifact_id, sidecar) ==
    IF MissingOrMalformed(sidecar)
    THEN Returned(_degraded_verdict(artifact_id,
                      "Sidecar data is missing or malformed"))
    ELSE IF "quality" \notin DOMAIN sidecar
            \/ "error_taxonomy" \notin DOMAIN sidecar
    THEN Returned(_degraded_verdict(artifact_id,
             "Sidecar missing required quality/error_taxonomy fields"))
    ELSE LET checks == _run_checks(sidecar)
             check_results == checks.results
             IsBlockingFailure(c) == c.severity = "blocking" /\ ~c.passed
             IsAdvisoryFailure(c) == c.severity = "advisory" /\ ~c.passed
             failed_blocking == SelectSeq(check_results, IsBlockingFailure)
             failed_advisory == SelectSeq(check_results, IsAdvisoryFailure)
             blocking_failures ==
                 [k \in 1..Len(failed_blocking) |->
                     failed_blocking[k].check_id]
             advisory_failures ==
                 [k \in 1..Len(failed_advisory) |->
                     failed_advisory[k].check_id]
             verdict == IF blocking_failures # <<>> THEN "fail"
                        ELSE IF advisory_failures # <<>> THEN "warn"
                        ELSE "pass"
             retry_eligible ==
                 /\ verdict = "fail"
                 /\ \E k \in 1..Len(blocking_failures) :
                       blocking_failures[k] \in RETRY_ELIGIBLE_CHECKS
             failure_signature ==
                 IF blocking_failures # <<>>
                 THEN _compute_failure_signature(blocking_failures)
                 ELSE ""
             fix_hints ==
                 IF retry_eligible
                 THEN _generate_fix_hints(sidecar, blocking_failures)
                 ELSE [raised |-> "", hints |-> <<>>]
         IN IF checks.raised # "" THEN Raises(checks.raised)
            ELSE IF fix_hints.raised # "" THEN Raises(fix_hints.raised)
            ELSE Returned(
                [schema_version |-> "verdict.v1",
                 artifact_id |-> artifact_id,
                 generated_at |-> "now",
                 verdict |-> verdict,
                 degraded |-> FALSE,
                 degraded_reason |-> "",
                 check_results |-> check_results,
                 blocking_failures |-> blocking_failures,
                 advisory_failures |-> advisory_failures,
                 retry_eligible |-> retry_eligible,
                 failure_signature |-> failure_signature,
                 fix_hints |-> fix_hints.hints])

(***************************************************************************)
(* Inputs and steps of the Verdict Engine                                  *)
(***************************************************************************)

\* A key that a dict does not have.
Absent == [py |-> "absent"]
WithKey(d, key, value) == IF value = Absent THEN d ELSE Put(d, key, value)

\* quality.validation, when the step ran: all fine, tests failing, lint
\* issues, both.
Validation(success, pytest_failed, ruff_issues) ==
    [success |-> success, pytest_failed |-> pytest_failed,
     ruff_issues |-> ruff_issues]

Validations ==
    {Absent, PyNone, Validation(TRUE, 0, 0), Validation(FALSE, 2, 0),
     Validation(TRUE, 0, 3), Validation(FALSE, 1, 3)}

CursorAudits == {Absent, PyNone, [p0_count |-> 0], [p0_count |-> 2]}

CodeReviews ==
    {Absent, PyNone, [critical_count |-> 0], [critical_count |-> 1]}

PreCommitSafeties == {Absent, PyNone, [status |-> "PASS"], [status |-> "FAIL"]}

FailCategories == {"", "build"}

\* execution_context: missing, or with steps_completed with and without
\* the build step.
ExecutionContexts ==
    {Absent,
     [steps_completed |-> PyList(<<"ingest", "audit">>)],
     [steps_completed |-> PyList(<<"ingest", "audit", "build">>)]}

\* A sidecar whose sections are mappings.
Sidecar(validation, cursor_audit, code_review, pre_commit_safety, fail_category, execution_context) ==
    WithKey(
        [quality |->
            WithKey(WithKey(WithKey(WithKey(EmptyDict,
                "validation", validation),
                "cursor_audit", cursor_audit),
                "code_review", code_review),
                "pre_commit_safety", pre_commit_safety),
         error_taxonomy |-> [status |-> "complete",
                             fail_category |-> fail_category],
         failed_test_names |-> PyList(<<"tests/test_foo.py::test_bar">>)],
        "execution_context", execution_context)

WellFormedSidecars ==
    {Sidecar(v, ca, cr, pcs, fc, ec) :
        v \in Validations, ca \in CursorAudits, cr \in CodeReviews,
        pcs \in PreCommitSafeties, fc \in FailCategories,
        ec \in ExecutionContexts}

\* No sidecar, sidecars that are no mapping, and mappings without quality
\* or without error_taxonomy.
UnusableSidecars ==
    {PyNone, EmptyDict, PyList(<<>>), JsonValue("str"), JsonValue("int"),
     [random |-> "data"],
     [quality |-> EmptyDict],
     [error_taxonomy |-> EmptyDict]}

\* Mappings with both keys and a section that is no mapping.
MalformedSidecars ==
    LET ok == Sidecar(Validation(FALSE, 2, 0), Absent, Absent, Absent, "",
                      Absent)
    IN {[ok EXCEPT !.quality = PyNone],
        [ok EXCEPT !.quality = JsonValue("str")],
        [ok EXCEPT !.error_taxonomy = PyNone],
        [ok EXCEPT !.error_taxonomy = PyList(<<>>)],
        WithKey(ok, "execution_context", PyNone),
        WithKey(ok, "execution_context", PyList(<<>>)),
        WithKey(ok, "execution_context", [steps_completed |-> PyNone]),
        [ok EXCEPT !.quality = [validation |-> JsonValue("str")]],
        [ok EXCEPT !.quality = [cursor_audit |-> JsonValue("int")]],
        [ok EXCEPT !.quality = [code_review |-> PyList(<<>>)]],
        [ok EXCEPT !.quality = [pre_commit_safety |-> JsonValue("str")]],
        [ok EXCEPT !.failed_test_names = PyNone]}

Sidecars == WellFormedSidecars \cup UnusableSidecars \cup MalformedSidecars

ArtifactIds == {"test-001", "test-002"}

\* Sidecars that between them fail every set of blocking checks, with and
\* without lint issues.
SignatureSidecars ==
    {Sidecar(v, ca, cr, pcs, fc,
             [steps_completed |-> PyList(<<"ingest", "audit", "build">>)]) :
        v \in Validations \ {Absent, PyNone},
        ca \in {[p0_count |-> 0], [p0_count |-> 2]},
        cr \in {[critical_count |-> 0], [critical_count |-> 1]},
        pcs \in {[status |-> "PASS"], [status |-> "FAIL"]},
        fc \in FailCategories}

\* No verdict is asked for.
VerdictIdle ==
    /\ sidecars = <<>>
    /\ verdicts = <<>>
    /\ verdicts_dir = <<>>

\* observe-verdict: the verdict of the next sidecar handed in.
GenerateVerdict ==
    /\ Len(verdicts) < Len(sidecars)
    /\ LET input == sidecars[Len(verdicts) + 1]
       IN verdicts' = Append(verdicts,
                             generate_verdict(input[1], input[2]))
    /\ UNCHANGED <<sidecars, verdicts_dir>>
    /\ UNCHANGED <<store_vars, engine_vars, metrics_vars, agent_vars, race_vars>>

\* write_verdict(artifact_id, verdict_data): the document is dumped to the
\* temporary file, which is renamed over `<artifact_id>.verdict.v1.json`.
write_verdict(dir, artifact_id, verdict_data) ==
    Put(dir, artifact_id, verdict_data)

\* observe-verdict: a verdict that was returned is written under its
\* artifact id.
WriteVerdict(i) ==
    /\ i \in 1..Len(verdicts)
    /\ verdicts[i].raised = ""
    /\ verdicts_dir' = write_verdict(verdicts_dir, sidecars[i][1],
                                     verdicts[i].verdict)
    /\ UNCHANGED <<sidecars, verdicts>>
    /\ UNCHANGED <<store_vars, engine_vars, metrics_vars, agent_vars, race_vars>>


(***************************************************************************)
(* Metrics (lib/metrics.py)                                                *)
(*                                                                         *)
(* duration_mean and avg_lint_errors are in hundredths, as round(_, 2)     *)
(* leaves them; build_success_rate is in hundredths too.  The values the   *)
(* model takes keep every delta away from the threshold itself, where the  *)
(* comparison would depend on the rounding of the float subtraction.       *)
(***************************************************************************)

\* MetricsSummary, the fields compute_trends reads and writes; a summary
\* that compute_metrics has just returned has its three trends "".
MetricsSummary(count, duration_mean, build_success_rate, avg_lint_errors) ==
    [run_count |-> count, duration_mean |-> duration_mean,
     build_success_rate |-> build_success_rate,
     avg_lint_errors |-> avg_lint_errors,
     duration_trend |-> "", reliability_trend |-> "", hygiene_trend |-> ""]

\* threshold = 0.1, in hundredths.
Threshold == 10

\* A trend of a dimension where lower is better: delta is the relative
\* change (current - previous) / previous, previous > 0.
RelativeTrend(current, previous, threshold) ==
    IF 100 * (current - previous) < -(threshold * previous) THEN "improving"
    ELSE IF 100 * (current - previous) > threshold * previous
    THEN "degrading"
    ELSE "stable"

compute_trends(current, previous, threshold) ==
    IF previous.run_count = 0
    THEN [current EXCEPT !.duration_trend = "insufficient_data",
                         !.reliability_trend = "insufficient_data",
                         !.hygiene_trend = "insufficient_data"]
    ELSE
    [current EXCEPT
        !.duration_trend =
            IF previous.duration_mean > 0
            THEN RelativeTrend(current.duration_mean, previous.duration_mean,
                               threshold)
            ELSE @,
        !.reliability_trend =
            IF previous.build_success_rate > 0
            THEN LET delta == current.build_success_rate
                                - previous.build_success_rate
                 IN IF delta > threshold THEN "improving"
                    ELSE IF delta < -threshold THEN "degrading"
                    ELSE "stable"
            ELSE @,
        !.hygiene_trend =
            IF previous.avg_lint_errors > 0
            THEN RelativeTrend(current.avg_lint_errors,
                               previous.avg_lint_errors, threshold)
            ELSE IF current.avg_lint_errors = 0 THEN "stable"
            ELSE @]

\* Summaries of an empty window and of windows of five runs: durations of
\* 0, 20, 30 and 40 minutes, build success rates of 0.0, 0.5, 0.7 and 1.0,
\* lint averages of 0, 0.5 and 5.0.
Summaries ==
    {MetricsSummary(0, 0, 0, 0)} \cup
    {MetricsSummary(5, duration_mean, build_success_rate, avg_lint_errors) :
        duration_mean \in {0, 2000, 3000, 4000},
        build_success_rate \in {0, 50, 70, 100},
        avg_lint_errors \in {0, 50, 500}}

\* No trend is asked for.
MetricsIdle ==
    /\ summaries = <<>>
    /\ trended = <<>>

\* compute_trends(current, previous) with the default threshold.
ComputeTrends ==
    /\ summaries # <<>>
    /\ trended = <<>>
    /\ trended' = <<compute_trends(summaries[1], summaries[2], Threshold)>>
    /\ UNCHANGED summaries
    /\ UNCHANGED <<store_vars, engine_vars, verdict_vars, agent_vars, race_vars>>

(***************************************************************************)
(* Analysis Agent (lib/analysis_agent.py, lib/monitoring.py)               *)
(*                                                                         *)
(* The records of the model carry no duration, lint or type errors and no  *)
(* manual intervention, so a window's summary is its size and its build    *)
(* success rate.  duration_seconds of a result is a measurement and is     *)
(* left out.                                                               *)
(***************************************************************************)

\* The configuration the agent runs under: the defaults with a window of
\* one run (AnalysisConfig(analysis_window_size=...), as in the tests).
AgentConfig == [AnalysisConfig EXCEPT !.analysis_window_size = 1]

\* report_prefix.
report_prefix == "analysis"

\* compute_metrics(runs): MetricsSummary() for no runs, else the size and
\* the share of successful builds.
compute_metrics(runs) ==
    IF runs = <<>> THEN MetricsSummary(0, 0, 0, 0)
    ELSE LET successful ==
                 Cardinality({k \in 1..Len(runs) : runs[k].build_success})
         IN MetricsSummary(Len(runs), 0, (100 * successful) \div Len(runs),
                           0)

\* _analyze: the findings, as (severity, category) pairs in the order they
\* are appended.
_analyze(metrics) ==
    (IF metrics.build_success_rate < AgentConfig.target_build_success_rate
     THEN <<<<"critical", "reliability">>>>
     ELSE IF metrics.build_success_rate = 100
     THEN <<<<"info", "reliability">>>>
     ELSE <<>>)
    \o (IF metrics.duration_trend = "degrading"
        THEN <<<<"warning", "trend">>>> ELSE <<>>)
    \o (IF metrics.reliability_trend = "degrading"
        THEN <<<<"critical", "trend">>>> ELSE <<>>)
    \o (IF metrics.hygiene_trend = "degrading"
        THEN <<<<"warning", "trend">>>> ELSE <<>>)

\* strftime("%Y-%m-%d %H:%M UTC"): the minute of a time in seconds.
Minute(now) == now \div 60

\* _empty_report and _generate_report: the report is determined by the
\* minute it is generated in, the runs of the current window, their
\* summary and the findings.
_empty_report(now) == [generated |-> Minute(now), runs |-> <<>>]

_generate_report(now, runs, metrics, findings) ==
    [generated |-> Minute(now),
     runs |-> [k \in 1..Len(runs) |-> runs[k].run_id],
     metrics |-> metrics,
     findings |-> findings]

\* The report name _write_report builds: the prefix and the time to the
\* second, with the suffix write_analysis adds.
ReportName(now) == <<report_prefix, now, ".md">>

\* ContextHub.write_analysis: open(path, "w") creates or truncates.
write_analysis(dir, filename, content) == Put(dir, filename, content)

\* AnalysisResult().
AnalysisResult ==
    [report_filename |-> "", report_content |-> "", findings_count |-> 0,
     runs_analyzed |-> 0, success |-> FALSE, error |-> PyNone]

\* The try block of run at time now: the exception that ends it ("" when
\* it ends normally), the result as it stands then, and the analysis
\* directory it leaves.
Cycle(runs, analysis, now) ==
    LET window == AgentConfig.analysis_window_size
        listing == list_runs(runs, window * 2, TRUE)
    IN  IF listing.raised # ""
        THEN [raised |-> listing.raised, result |-> AnalysisResult,
              analysis_dir |-> analysis]
        ELSE IF listing.records = <<>>
        THEN [raised |-> "",
              result |-> [AnalysisResult EXCEPT
                            !.success = TRUE,
                            !.report_content = _empty_report(now),
                            !.report_filename = ReportName(now)],
              analysis_dir |->
                  write_analysis(analysis, ReportName(now),
                                 _empty_report(now))]
        ELSE LET current_runs == Prefix(listing.records, window)
                 previous_runs ==
                     SubSeq(listing.records, window + 1,
                            Len(listing.records))
                 metrics_with_trends ==
                     compute_trends(compute_metrics(current_runs),
                                    compute_metrics(previous_runs),
                                    Threshold)
                 findings == _analyze(metrics_with_trends)
                 report == _generate_report(now, current_runs,
                                            metrics_with_trends, findings)
             IN [raised |-> "",
                 result |-> [AnalysisResult EXCEPT
                               !.report_filename = ReportName(now),
                               !.report_content = report,
                               !.findings_count = Len(findings),
                               !.runs_analyzed = Len(current_runs),
                               !.success = TRUE],
                 analysis_dir |->
                     write_analysis(analysis, ReportName(now), report)]

\* str(e) of the exceptions a damaged run file raises.
Message(exception) ==
    [py |-> "str",
     text |-> CASE exception = "AttributeError" ->
                      "'list' object has no attribute 'items'"
                [] OTHER -> exception]

\* _log_to_monitor: the AgentRunLog entry of a result.
AgentRunLog(result) ==
    [agent_name |-> "analysis_agent",
     runs_analyzed |-> result.runs_analyzed,
     findings_count |-> result.findings_count,
     success |-> result.success,
     error |-> result.error,
     report_filename |-> result.report_filename,
     window_size |-> AgentConfig.analysis_window_size]

\* AgentMonitor.log_run: the entry is appended as one line.
log_run(log, entry) == Append(log, entry)

\* A run that lets the exception of its cycle through, unlogged.
run_uncaught(runs, analysis, log, now) ==
    LET cycle == Cycle(runs, analysis, now)
    IN  [raised |-> cycle.raised,
         returned |-> cycle.result,
         analysis_dir |-> cycle.analysis_dir,
         log |-> IF cycle.raised = ""
                 THEN log_run(log, AgentRunLog(cycle.result))
                 ELSE log]

\* AnalysisAgent.run at time now: `except Exception` turns the exception
\* of the cycle into a failed result, `finally` logs the result.
run(runs, analysis, log, now) ==
    LET cycle == Cycle(runs, analysis, now)
        result == IF cycle.raised = "" THEN cycle.result
                  ELSE [cycle.result EXCEPT
                          !.success = FALSE,
                          !.error = Message(cycle.raised)]
    IN  [raised |-> "",
         returned |-> result,
         analysis_dir |-> cycle.analysis_dir,
         log |-> log_run(log, AgentRunLog(result))]

\* The hub before the agent has run.
NotRun == [raised |-> "", returned |-> None]

AgentIdle ==
    /\ analysis_dir = <<>>
    /\ agent_log = <<>>
    /\ clock = 0
    /\ alast = NotRun

\* The longest monitoring log and the latest second the model follows.
MaxAgentRuns == 3
MaxClock == 1

\* agent.run().
AgentRun ==
    /\ wpc = "idle"
    /\ Len(agent_log) < MaxAgentRuns
    /\ \E out \in {run(runs_dir, analysis_dir, agent_log, clock)} :
          /\ alast' = [raised |-> out.raised, returned |-> out.returned]
          /\ analysis_dir' = out.analysis_dir
          /\ agent_log' = out.log
    /\ UNCHANGED clock
    /\ UNCHANGED <<store_vars, engine_vars, verdict_vars, metrics_vars, race_vars>>

\* A second passes.
Tick ==
    /\ clock < MaxClock
    /\ clock' = clock + 1
    /\ UNCHANGED <<analysis_dir, agent_log, alast>>
    /\ UNCHANGED <<store_vars, engine_vars, verdict_vars, metrics_vars, race_vars>>

\* The run files the agent meets: records of builds that succeeded and
\* failed, text that is not JSON, and JSON that is a list.
AgentRunIds == {<<"r", "1">>, <<"r", "2">>}
AgentDamage == {InvalidJson, [kind |-> "json", data |-> JsonValue("list")]}

(***************************************************************************)
(* Concurrent callers (lib/context_hub.py, lib/proposal_engine.py)         *)
(*                                                                         *)
(* Two processes call into the same Context Hub.  A file a process holds   *)
(* open is followed by the name it has: a rename carries the open file to  *)
(* the new name, and open(..., "w") on an existing name truncates the file *)
(* that every holder of that name shares.                                  *)
(***************************************************************************)

Procs == {"A", "B"}

NoName == <<>>
Unlinked == <<"?">>

\* f.write at offset 0 of a file that holds old: the text alone on an
\* empty file, else the text over the old content, whose tail remains
\* when it is the longer.
Overlay(text, old) ==
    IF old = EmptyFile \/ old = text THEN text
    ELSE [kind |-> "overlaid", text |-> text, over |-> old]

\* No concurrent call is under way.
RaceIdle ==
    /\ ppc = [p \in Procs |-> "idle"]
    /\ parg = [p \in Procs |-> None]
    /\ phandle = [p \in Procs |-> NoName]
    /\ pout = [p \in Procs |-> ""]
    /\ porder = <<>>

\* write_run(record) by process p, up to the existence check.
RaceCheck(p) ==
    /\ ppc[p] = "start"
    /\ IF validate_run_record(parg[p]) # {}
       THEN /\ pout' = [pout EXCEPT ![p] = "ValidationError"]
            /\ ppc' = [ppc EXCEPT ![p] = "done"]
       ELSE IF AlreadyStored(runs_dir, parg[p])
       THEN /\ pout' = [pout EXCEPT ![p] = "RecordExistsError"]
            /\ ppc' = [ppc EXCEPT ![p] = "done"]
       ELSE /\ ppc' = [ppc EXCEPT ![p] = "checked"]
            /\ UNCHANGED pout
    /\ UNCHANGED <<runs_dir, wpc, wrec, last, parg, phandle, porder>>
    /\ UNCHANGED <<engine_vars, verdict_vars, metrics_vars, agent_vars>>

\* open(tmp_path, "w"): the temp file is created, or truncated when it is
\* there.
RaceOpen(p) ==
    /\ ppc[p] = "checked"
    /\ runs_dir' = Put(runs_dir, TmpPath(_run_path(parg[p].run_id)),
                       EmptyFile)
    /\ phandle' = [phandle EXCEPT
                      ![p] = TmpPath(_run_path(parg[p].run_id))]
    /\ ppc' = [ppc EXCEPT ![p] = "opened"]
    /\ UNCHANGED <<wpc, wrec, last, parg, pout, porder>>
    /\ UNCHANGED <<engine_vars, verdict_vars, metrics_vars, agent_vars>>

\* f.write(record.to_json()) and the close that ends the with block: the
\* text reaches the file p holds open, under the name that file has now.
RaceWrite(p) ==
    /\ ppc[p] = "opened"
    /\ runs_dir' =
          IF Exists(runs_dir, phandle[p])
          THEN Put(runs_dir, phandle[p],
                   Overlay(to_json(parg[p]), runs_dir[phandle[p]]))
          ELSE runs_dir
    /\ phandle' = [phandle EXCEPT ![p] = NoName]
    /\ ppc' = [ppc EXCEPT ![p] = "written"]
    /\ UNCHANGED <<wpc, wrec, last, parg, pout, porder>>
    /\ UNCHANGED <<engine_vars, verdict_vars, metrics_vars, agent_vars>>

\* tmp_path.rename(path): FileNotFoundError when the temp file is gone
\* (the handler finds nothing to unlink and re-raises); else the temp file
\* replaces the final one, and whoever holds it open holds the final file.
RaceRename(p) ==
    LET path == _run_path(parg[p].run_id)
        tmp_path == TmpPath(path)
    IN  /\ ppc[p] = "written"
        /\ IF ~Exists(runs_dir, tmp_path)
           THEN /\ pout' = [pout EXCEPT ![p] = "FileNotFoundError"]
                /\ UNCHANGED <<runs_dir, phandle, porder>>
           ELSE /\ runs_dir' = Rename(runs_dir, tmp_path, path)
                /\ phandle' =
                      [q \in Procs |->
                          IF phandle[q] = tmp_path THEN path
                          ELSE IF phandle[q] = path THEN Unlinked
                          ELSE phandle[q]]
                /\ pout' = [pout EXCEPT ![p] = "ok"]
                /\ porder' = Append(porder, p)
        /\ ppc' = [ppc EXCEPT ![p] = "done"]
        /\ UNCHANGED <<wpc, wrec, last, parg>>
        /\ UNCHANGED <<engine_vars, verdict_vars, metrics_vars, agent_vars>>

\* generate_proposal(findings) by process p, up to the pending scan.
RaceScan(p) ==
    /\ ppc[p] = "start"
    /\ IF pending_proposals(proposals_dir) # <<>>
       THEN /\ pout' = [pout EXCEPT ![p] = "PendingProposalExists"]
            /\ ppc' = [ppc EXCEPT ![p] = "done"]
       ELSE /\ ppc' = [ppc EXCEPT ![p] = "scanned"]
            /\ UNCHANGED pout
    /\ UNCHANGED <<parameters_dir, proposals_dir, next_pid, elast>>
    /\ UNCHANGED <<parg, phandle, porder>>
    /\ UNCHANGED <<store_vars, verdict_vars, metrics_vars, agent_vars>>

\* The rest of generate_proposal: the rules are applied to the parameters
\* as they are now, and a proposal with diffs is persisted under a new id.
RacePersist(p) ==
    /\ ppc[p] = "scanned"
    /\ LET diffs == ApplyRules(parg[p], 1, 1, AnalysisConfig,
                               ParamsOrEmpty(parameters_dir), <<>>)
           proposal == Proposal(generate_proposal_id, parg[p], diffs,
                                _current_version(parameters_dir))
       IN IF diffs = <<>>
          THEN /\ pout' = [pout EXCEPT ![p] = "None"]
               /\ UNCHANGED <<proposals_dir, next_pid, porder>>
          ELSE /\ proposals_dir' = write_proposal(proposals_dir,
                                       proposal.proposal_id, proposal)
               /\ next_pid' = next_pid + 1
               /\ pout' = [pout EXCEPT ![p] = "returned"]
               /\ porder' = Append(porder, p)
    /\ ppc' = [ppc EXCEPT ![p] = "done"]
    /\ UNCHANGED <<parameters_dir, elast, parg, phandle>>
    /\ UNCHANGED <<store_vars, verdict_vars, metrics_vars, agent_vars>>

\* The records two writers hold for one run id: the same run, reported
\* with a successful and with a failed build.
RaceRecords ==
    {[p \in Procs |-> RunRecord(run_id, (p = "A") = a_succeeded)] :
        run_id \in AgentRunIds, a_succeeded \in BOOLEAN}

(***************************************************************************)
(* Specifications                                                          *)
(***************************************************************************)

\* A fresh Context Hub, its parameter store empty or seeded with v0.1.0.
EngineInit ==
    /\ parameters_dir \in
          {<<>>, write_parameters(<<>>, SeedParams.version, SeedParams)}
    /\ proposals_dir = <<>>
    /\ next_pid = 1
    /\ elast = ECall("init", <<>>, "", None)

\* At most MaxProposals proposals are generated; a call that generates none
\* is always possible.
Generate ==
    /\ \E findings \in FindingLists : generate_proposal(findings)
    /\ next_pid' <= MaxProposals + 1
    /\ UNCHANGED <<store_vars, verdict_vars, metrics_vars, agent_vars, race_vars>>

Approve ==
    /\ \E proposal_id \in 1..next_pid :
           approve_proposal(proposal_id, "operator")
    /\ UNCHANGED <<store_vars, verdict_vars, metrics_vars, agent_vars, race_vars>>

Reject ==
    /\ \E proposal_id \in 1..next_pid, reason \in {"", "not now"} :
           reject_proposal(proposal_id, reason, "operator")
    /\ UNCHANGED <<store_vars, verdict_vars, metrics_vars, agent_vars, race_vars>>

\* The Record Store alone, on a hub whose other directories stay empty.
StoreOnlyInit ==
    /\ StoreInit
    /\ parameters_dir = <<>>
    /\ proposals_dir = <<>>
    /\ next_pid = 1
    /\ elast = ECall("init", <<>>, "", None)
    /\ VerdictIdle
    /\ MetricsIdle
    /\ AgentIdle
    /\ RaceIdle

SpecStore == StoreOnlyInit /\ [][StoreNext]_vars

\* Writes and listings of the Record Store on a disk whose files can be
\* damaged.
DamagedNext ==
    \/ \E run_id \in RunIds : WriteRunCall(RunRecord(run_id, TRUE))
    \/ WriteClose
    \/ WriteRename
    \/ \E run_id \in RunIds, content \in DamagedContents :
           Damage(run_id, content)
    \/ \E limit \in Limits, newest_first \in BOOLEAN :
           ListRuns(limit, newest_first)

SpecDamaged == StoreOnlyInit /\ [][DamagedNext]_vars

\* The Verdict Engine on one sidecar, on a hub whose directories stay empty.
VerdictInit ==
    /\ StoreInit
    /\ parameters_dir = <<>>
    /\ proposals_dir = <<>>
    /\ next_pid = 1
    /\ elast = ECall("init", <<>>, "", None)
    /\ sidecars \in {<<<<artifact_id, sidecar>>>> :
                        artifact_id \in ArtifactIds, sidecar \in Sidecars}
    /\ verdicts = <<>>
    /\ verdicts_dir = <<>>
    /\ MetricsIdle
    /\ AgentIdle
    /\ RaceIdle

VerdictNext == GenerateVerdict

SpecVerdict == VerdictInit /\ [][VerdictNext]_vars

\* The Verdict Engine on the sidecars of two runs, one after the other.
VerdictPairInit ==
    /\ StoreInit
    /\ parameters_dir = <<>>
    /\ proposals_dir = <<>>
    /\ next_pid = 1
    /\ elast = ECall("init", <<>>, "", None)
    /\ sidecars \in {<<<<a1, s1>>, <<a2, s2>>>> :
                        a1 \in ArtifactIds, s1 \in SignatureSidecars,
                        a2 \in ArtifactIds, s2 \in SignatureSidecars}
    /\ verdicts = <<>>
    /\ verdicts_dir = <<>>
    /\ MetricsIdle
    /\ AgentIdle
    /\ RaceIdle

VerdictPairNext == GenerateVerdict

SpecVerdictPair == VerdictPairInit /\ [][VerdictPairNext]_vars

\* Sidecars of runs that pass, fail, warn, and of a run without telemetry.
WrittenSidecars ==
    {Sidecar(Validation(TRUE, 0, 0), Absent, Absent, Absent, "", Absent),
     Sidecar(Validation(FALSE, 2, 0), Absent, Absent, Absent, "", Absent),
     Sidecar(Validation(TRUE, 0, 3), Absent, Absent, Absent, "", Absent),
     Sidecar(Validation(TRUE, 0, 0), Absent, Absent, [status |-> "FAIL"], "",
             Absent),
     PyNone}

\* observe-verdict run twice: each run generates a verdict and writes it.
VerdictWriteInit ==
    /\ StoreInit
    /\ parameters_dir = <<>>
    /\ proposals_dir = <<>>
    /\ next_pid = 1
    /\ elast = ECall("init", <<>>, "", None)
    /\ sidecars \in {<<<<a1, s1>>, <<a2, s2>>>> :
                        a1 \in ArtifactIds, s1 \in WrittenSidecars,
                        a2 \in ArtifactIds, s2 \in WrittenSidecars}
    /\ verdicts = <<>>
    /\ verdicts_dir = <<>>
    /\ MetricsIdle
    /\ AgentIdle
    /\ RaceIdle

VerdictWriteNext ==
    \/ GenerateVerdict
    \/ \E i \in 1..Len(verdicts) : WriteVerdict(i)

SpecVerdictWrite == VerdictWriteInit /\ [][VerdictWriteNext]_vars

\* compute_trends on a pair of summaries, on a hub whose directories stay
\* empty.
TrendsInit ==
    /\ StoreInit
    /\ parameters_dir = <<>>
    /\ proposals_dir = <<>>
    /\ next_pid = 1
    /\ elast = ECall("init", <<>>, "", None)
    /\ VerdictIdle
    /\ summaries \in {<<current, previous>> :
                        current \in Summaries, previous \in Summaries}
    /\ trended = <<>>
    /\ AgentIdle
    /\ RaceIdle

TrendsNext == ComputeTrends

SpecTrends == TrendsInit /\ [][TrendsNext]_vars

\* The Analysis Agent run again and again on a Record Store that fills, on
\* a hub without parameters and proposals.
AgentInit ==
    /\ StoreInit
    /\ parameters_dir = <<>>
    /\ proposals_dir = <<>>
    /\ next_pid = 1
    /\ elast = ECall("init", <<>>, "", None)
    /\ VerdictIdle
    /\ MetricsIdle
    /\ AgentIdle
    /\ RaceIdle

AgentNext ==
    \/ \E run_id \in AgentRunIds, build_success \in BOOLEAN :
           WriteRunCall(RunRecord(run_id, build_success))
    \/ WriteClose
    \/ WriteRename
    \/ \E run_id \in AgentRunIds, content \in AgentDamage :
           Damage(run_id, content)
    \/ AgentRun
    \/ Tick

SpecAgent == AgentInit /\ [][AgentNext]_vars

\* Two processes in write_run for the same run id, their steps in every
\* order, on a fresh hub.
WriteRaceInit ==
    /\ StoreInit
    /\ parameters_dir = <<>>
    /\ proposals_dir = <<>>
    /\ next_pid = 1
    /\ elast = ECall("init", <<>>, "", None)
    /\ VerdictIdle
    /\ MetricsIdle
    /\ AgentIdle
    /\ ppc = [p \in Procs |-> "start"]
    /\ parg \in RaceRecords
    /\ phandle = [p \in Procs |-> NoName]
    /\ pout = [p \in Procs |-> ""]
    /\ porder = <<>>

WriteRaceNext ==
    \E p \in Procs :
        RaceCheck(p) \/ RaceOpen(p) \/ RaceWrite(p) \/ RaceRename(p)

SpecWriteRace == WriteRaceInit /\ [][WriteRaceNext]_vars

\* Two processes in generate_proposal, their steps in every order, on a hub
\* without proposals.
GenerateRaceInit ==
    /\ StoreInit
    /\ EngineInit
    /\ VerdictIdle
    /\ MetricsIdle
    /\ AgentIdle
    /\ ppc = [p \in Procs |-> "start"]
    /\ parg \in [Procs -> FindingLists]
    /\ phandle = [p \in Procs |-> NoName]
    /\ pout = [p \in Procs |-> ""]
    /\ porder = <<>>

GenerateRaceNext == \E p \in Procs : RaceScan(p) \/ RacePersist(p)

SpecGenerateRace == GenerateRaceInit /\ [][GenerateRaceNext]_vars

\* The Proposal Engine, every call in every order.
Init ==
    /\ StoreInit /\ EngineInit
    /\ VerdictIdle /\ MetricsIdle /\ AgentIdle /\ RaceIdle

Next == Generate \/ Approve \/ Reject

Spec == Init /\ [][Next]_vars

\* Chains of generate_proposal and approve_proposal from the seeded v0.1.0.
ChainInit ==
    /\ StoreInit
    /\ parameters_dir = write_parameters(<<>>, SeedParams.version, SeedParams)
    /\ proposals_dir = <<>>
    /\ next_pid = 1
    /\ elast = ECall("init", <<>>, "", None)
    /\ VerdictIdle
    /\ MetricsIdle
    /\ AgentIdle
    /\ RaceIdle

ChainGenerate ==
    /\ \E findings \in ChainFindingLists : generate_proposal(findings)
    /\ next_pid' <= MaxChain + 1
    /\ UNCHANGED <<store_vars, verdict_vars, metrics_vars, agent_vars, race_vars>>

ChainApprove ==
    /\ next_pid > 1
    /\ approve_proposal(next_pid - 1, "operator")
    /\ UNCHANGED <<store_vars, verdict_vars, metrics_vars, agent_vars, race_vars>>

ChainNext == ChainGenerate \/ ChainApprove

SpecChain == ChainInit /\ [][ChainNext]_vars

\* The rules on every list of findings, each proposal approved before the
\* next is generated, on a store that starts empty or seeded.
RulesGenerate ==
    /\ \E findings \in RuleFindingLists : generate_proposal(findings)
    /\ next_pid' <= MaxRuleProposals + 1
    /\ UNCHANGED <<store_vars, verdict_vars, metrics_vars, agent_vars, race_vars>>

RulesNext == RulesGenerate \/ ChainApprove

SpecRules == Init /\ [][RulesNext]_vars

(***************************************************************************)
(* Properties of the Record Store                                          *)
(***************************************************************************)

\* C2: once a record is persisted under a run_id, the content stored under
\* that run_id is the same in every later state, whatever Record Store
\* operation is taken.
C2_PersistedNeverChanges ==
    [][\A name \in JsonFiles(runs_dir) :
          /\ Exists(runs_dir', name)
          /\ runs_dir'[name] = runs_dir[name]]_vars

\* A second write_run under a stored id, with another build outcome, has
\* been refused while both ids are stored.
C2_Witness ==
    /\ \A id \in RunIds : run_exists(runs_dir, id)
    /\ last.op = "write_run"
    /\ last.result = "RecordExistsError"
    /\ runs_dir[_run_path(last.arg.run_id)].data.build_success
          # last.arg.build_success

\* A step that is a call of write_run with a record whose run_id is stored.
IsRewrite ==
    /\ wpc = "idle"
    /\ last'.op = "write_run"
    /\ last'.arg.run_id # <<>>
    /\ Exists(runs_dir, _run_path(last'.arg.run_id))

\* C3 as stated: write_run(r2) for a stored run_id raises RecordExistsError
\* for every r2, valid or not, and leaves the stored content as it was.
C3_AlwaysRecordExistsError ==
    [][IsRewrite =>
          /\ last'.result = "RecordExistsError"
          /\ runs_dir' = runs_dir]_vars

\* C3 amended: write_run(r2) for a stored run_id raises RecordExistsError
\* when r2 is valid and ValidationError when r2 is invalid (validation runs
\* before the existence check); either way the stored content is unchanged.
C3_RewriteRefused ==
    [][IsRewrite =>
          /\ last'.result =
                IF validate_run_record(last'.arg) = {}
                THEN "RecordExistsError" ELSE "ValidationError"
          /\ runs_dir' = runs_dir]_vars

\* Both outcomes of C3 occur: a valid and an invalid second record.
C3_Witness ==
    /\ last.op = "write_run"
    /\ last.arg.run_id # <<>>
    /\ Exists(runs_dir, _run_path(last.arg.run_id))
    /\ last.result = "ValidationError"
    /\ runs_dir[_run_path(last.arg.run_id)].data.build_success = FALSE

\* C4: whatever step write_run is interrupted at, a file under a final
\* name (*.json) holds a complete record of that run_id, and read_run and
\* list_runs return complete records only.
C4_NoPartialUnderFinalName ==
    /\ \A name \in JsonFiles(runs_dir) :
          /\ runs_dir[name].kind = "json"
          /\ _run_path(runs_dir[name].data.run_id) = name
    /\ last.op = "read_run" =>
          \/ last.result = None
          \/ /\ DOMAIN last.result = DOMAIN RunRecord(<<>>, TRUE)
             /\ last.result.run_id = last.arg
    /\ last.op = "list_runs" /\ last.arg[1] < 0 =>
          /\ last.result.raised = ""
          /\ Len(last.result.records) = run_count(runs_dir)

\* write_run was killed after part of the text reached the temp file, and
\* the store has been read since.
C4_Witness ==
    /\ \E name \in DOMAIN runs_dir : runs_dir[name].kind = "partial"
    /\ ~run_exists(runs_dir, <<"r", "1">>)
    /\ Exists(runs_dir, TmpPath(_run_path(<<"r", "1">>)))
    /\ last.op = "read_run"
    /\ last.arg = <<"r", "1">>

\* The Run Record constraints of the data model.
DataModelOk(data) ==
    /\ data.run_id # <<>>
    /\ FromIsoFormatOk(data.timestamp)
    /\ data.input_type \in InputType
    /\ \A i \in 1..Len(data.pipeline_steps_executed.items) :
          data.pipeline_steps_executed.items[i] \in PipelineStep
    /\ data.fail_category \in valid_fail_categories
    /\ data.is_recursive => data.recursive_parent_id # ""
    /\ \A counter \in {"duration_minutes", "tests_passed", "tests_failed",
                       "lint_errors", "type_errors", "diff_size_lines",
                       "files_created", "files_modified", "tokens_input",
                       "tokens_output", "cost_usd", "iteration_number"} :
          data[counter] >= 0

\* C5: every record in the store satisfies the Run Record constraints, and
\* a write_run of a record that violates one raises ValidationError.
C5_StoredRecordsValid ==
    /\ \A name \in JsonFiles(runs_dir) :
          runs_dir[name].kind = "json" => DataModelOk(runs_dir[name].data)
    /\ last.op = "write_run" /\ ~DataModelOk(last.arg) =>
          last.result = "ValidationError"
(***************************************************************************)
(* Properties of the Proposal Engine                                       *)
(***************************************************************************)

Pending(dir) == {pid \in DOMAIN dir : dir[pid].status = "pending"}

Resolved(dir) ==
    {pid \in DOMAIN dir : dir[pid].status \in {"approved", "rejected"}}

\* C1: in every state reached by generate_proposal, approve_proposal and
\* reject_proposal calls made one at a time from an empty proposal store,
\* at most one stored proposal is pending.
C1_AtMostOnePending == Cardinality(Pending(proposals_dir)) <= 1

\* A proposal is pending beside a resolved one, and a further
\* generate_proposal has just been refused.
C1_Witness ==
    /\ Cardinality(Pending(proposals_dir)) = 1
    /\ Resolved(proposals_dir) # {}
    /\ elast.op = "generate_proposal"
    /\ elast.raised = "PendingProposalExists"

\* C6: approve_proposal or reject_proposal on a proposal that is approved
\* or rejected raises ProposalNotPending and changes neither the proposal
\* store nor the parameter store.
C6_ResolvedIsRefused ==
    [][(/\ elast'.op \in {"approve_proposal", "reject_proposal"}
        /\ elast'.arg \in Resolved(proposals_dir))
       => /\ elast'.raised = "ProposalNotPending"
          /\ proposals_dir' = proposals_dir
          /\ parameters_dir' = parameters_dir]_vars

\* approve_proposal has just been refused on a rejected proposal.
C6_Witness ==
    /\ elast.op = "approve_proposal"
    /\ elast.raised = "ProposalNotPending"
    /\ elast.arg \in DOMAIN proposals_dir
    /\ proposals_dir[elast.arg].status = "rejected"

\* C7: a stored proposal keeps its id, diffs, versions and impact level for
\* ever; its status changes only from pending to approved or rejected, and
\* its resolution metadata changes only in the step its status does.
C7_OnlyStatusChangesOnce ==
    [][\A pid \in DOMAIN proposals_dir :
          LET old == proposals_dir[pid]
              new == proposals_dir'[pid]
          IN /\ pid \in DOMAIN proposals_dir'
             /\ new.proposal_id = old.proposal_id
             /\ new.parameter_diffs = old.parameter_diffs
             /\ new.version_from = old.version_from
             /\ new.version_to = old.version_to
             /\ new.impact_level = old.impact_level
             /\ new.status # old.status =>
                   /\ old.status = "pending"
                   /\ new.status \in {"approved", "rejected"}
             /\ <<new.resolved_by, new.resolved_at, new.rejection_reason>>
                   # <<old.resolved_by, old.resolved_at,
                       old.rejection_reason>>
                => old.status = "pending" /\ new.status # "pending"]_vars

\* A rejected proposal, with its reason, and an approved one are stored,
\* and a call on one of them has been refused since.
C7_Witness ==
    /\ \E pid \in DOMAIN proposals_dir :
          /\ proposals_dir[pid].status = "rejected"
          /\ proposals_dir[pid].rejection_reason = "not now"
    /\ \E pid \in DOMAIN proposals_dir :
          proposals_dir[pid].status = "approved"
    /\ elast.op = "reject_proposal"
    /\ elast.raised = "ProposalNotPending"

\* C8: from a seeded v0.1.0, no step changes the config stored under an
\* existing parameter version: every approval writes a version that did
\* not exist before.
C8_VersionsNeverOverwritten ==
    [][\A name \in DOMAIN parameters_dir :
          /\ name \in DOMAIN parameters_dir'
          /\ parameters_dir'[name] = parameters_dir[name]]_vars

\* C9: right after approve_proposal, latest_parameters returns the config
\* just written: its version is the proposal's version_to, which sorts
\* after every version written before.
C9_LatestIsVersionTo ==
    (elast.op = "approve_proposal" /\ elast.raised = "")
        => /\ latest_parameters(parameters_dir).version
                 = elast.returned.version_to
           /\ \A name \in JsonFiles(parameters_dir) :
                 \/ name = elast.returned.version_to \o JsonSuffix
                 \/ StrLess(name, elast.returned.version_to \o JsonSuffix)

\* C10: once the pending proposal is approved or rejected, a
\* generate_proposal whose findings match a rule does not raise
\* PendingProposalExists and stores a new pending proposal.
C10_LockReleased ==
    [][(/\ elast'.op = "generate_proposal"
        /\ Pending(proposals_dir) = {}
        /\ Resolved(proposals_dir) # {}
        /\ ApplyRules(elast'.arg, 1, 1, AnalysisConfig,
                      ParamsOrEmpty(parameters_dir), <<>>) # <<>>)
       => /\ elast'.raised = ""
          /\ elast'.returned # None
          /\ elast'.returned.status = "pending"
          /\ elast'.returned.proposal_id \notin DOMAIN proposals_dir
          /\ elast'.returned.proposal_id \in DOMAIN proposals_dir'
          /\ proposals_dir'[elast'.returned.proposal_id] = elast'.returned
          /\ Pending(proposals_dir') = {elast'.returned.proposal_id}]_vars

\* A second proposal was generated after the first was rejected.
C10_Witness ==
    /\ elast.op = "generate_proposal"
    /\ elast.raised = ""
    /\ elast.returned # None
    /\ \E pid \in Resolved(proposals_dir) :
          /\ pid < elast.returned.proposal_id
          /\ proposals_dir[pid].status = "rejected"
    /\ elast.returned.proposal_id \in Pending(proposals_dir)

\* (major, minor, patch) of a is before that of b.
VersionBefore(a, b) ==
    \/ a[1] < b[1]
    \/ a[1] = b[1] /\ a[2] < b[2]
    \/ a[1] = b[1] /\ a[2] = b[2] /\ a[3] < b[3]

\* The file of the highest parameter version stored in dir.
NewestVersion(dir) ==
    CHOOSE name \in JsonFiles(dir) :
        \A other \in JsonFiles(dir) \ {name} :
            VersionBefore(MatchVersion(other), MatchVersion(name))

\* The leaves of the highest parameter version, none in an empty store.
NewestValues(dir) ==
    IF JsonFiles(dir) = {} THEN <<>> ELSE dir[NewestVersion(dir)].values

\* C11: after approve_proposal(p) the config stored under p.version_to has
\* the new_value of every diff of p at the diff's path, and at every other
\* path of the config that was the latest before the call the value it had
\* there.
C11_ApprovedConfigFrame ==
    [][(elast'.op = "approve_proposal" /\ elast'.raised = "")
       => LET p == elast'.returned
              diffs == p.parameter_diffs
              touched == {diffs[k].path : k \in 1..Len(diffs)}
              before == NewestValues(parameters_dir)
              name == p.version_to \o JsonSuffix
          IN /\ Exists(parameters_dir', name)
             /\ \A k \in 1..Len(diffs) :
                   /\ diffs[k].path \in DOMAIN parameters_dir'[name].values
                   /\ parameters_dir'[name].values[diffs[k].path]
                         = diffs[k].new_value
             /\ \A path \in DOMAIN before \ touched :
                   /\ path \in DOMAIN parameters_dir'[name].values
                   /\ parameters_dir'[name].values[path] = before[path]]_vars

\* C12: a reject_proposal call, successful or failing, leaves the parameter
\* store as it was: the same versions with the same content, and so no
\* config under the rejected proposal's version_to that was not there before.
C12_RejectKeepsParameters ==
    [][Reject =>
          /\ parameters_dir' = parameters_dir
          /\ \A pid \in DOMAIN proposals_dir' :
                Exists(parameters_dir',
                       proposals_dir'[pid].version_to \o JsonSuffix)
                  <=> Exists(parameters_dir,
                             proposals_dir'[pid].version_to \o JsonSuffix)]_vars

\* A pending proposal has just been rejected in a seeded store, which holds
\* no config under its version_to.
C12_Witness ==
    /\ elast.op = "reject_proposal"
    /\ elast.raised = ""
    /\ proposals_dir[elast.arg].status = "rejected"
    /\ JsonFiles(parameters_dir) # {}
    /\ ~Exists(parameters_dir,
               proposals_dir[elast.arg].version_to \o JsonSuffix)

(***************************************************************************)
(* Properties of list_runs                                                 *)
(***************************************************************************)

\* The files list_runs(limit, newest_first) opens.
Scanned(dir, limit, newest_first) ==
    LET files == Prefix(Sorted(JsonFiles(dir), newest_first), limit)
    IN {files[k] : k \in 1..Len(files)}

\* C13: whatever damaged files runs/ holds, list_runs returns without
\* raising, and the list it returns holds the record of every file it
\* scanned that loads as a record.
C13_ListRunsSkipsDamaged ==
    [][(last'.op = "list_runs" /\ runs_dir' = runs_dir)
       => /\ last'.result.raised = ""
          /\ \A name \in Scanned(runs_dir, last'.arg[1], last'.arg[2]) :
                LoadRaises(runs_dir[name]) = ""
                  => \E k \in 1..Len(last'.result.records) :
                        last'.result.records[k]
                           = from_dict(runs_dir[name].data)]_vars

\* The records stored in dir that load, and the one with a given run_id.
Readable(dir) ==
    {from_dict(dir[name].data) :
        name \in {n \in JsonFiles(dir) : LoadRaises(dir[n]) = ""}}

RecordOf(dir, run_id) ==
    CHOOSE record \in Readable(dir) : record.run_id = run_id

\* The full listing ordered by run_id, and its prefix of length limit.
ListingById(dir, newest_first) ==
    LET ids == Sorted({record.run_id : record \in Readable(dir)},
                      newest_first)
    IN [k \in 1..Len(ids) |-> RecordOf(dir, ids[k])]

\* C14: list_runs(limit = n, newest_first) returns the first
\* min(n, number of readable records) records of the listing ordered by
\* run_id, descending when newest_first and ascending otherwise.
C14_PrefixOfListingByRunId ==
    [][(last'.op = "list_runs" /\ runs_dir' = runs_dir)
       => /\ last'.result.raised = ""
          /\ last'.result.records
                = Prefix(ListingById(runs_dir, last'.arg[2]),
                         last'.arg[1])]_vars

(***************************************************************************)
(* Properties of the Verdict Engine                                        *)
(***************************************************************************)

BlockingChecks ==
    {"build_success", "tests_passing", "arch_p0_clear", "code_review_clear",
     "secrets_clean"}

AdvisoryChecks == {"lint_clean", "type_clean"}

\* The calls made so far that returned a verdict document.
ReturnedCalls == {k \in 1..Len(verdicts) : verdicts[k].raised = ""}

\* The checks a verdict document reports, and those it reports as failed.
Checked(doc) ==
    {doc.check_results[i].check_id : i \in 1..Len(doc.check_results)}

Failed(doc) ==
    {doc.check_results[i].check_id :
        i \in {j \in 1..Len(doc.check_results) :
                  ~doc.check_results[j].passed}}

\* C15: a verdict that is not degraded reports all seven checks, and is
\* 'fail' iff a blocking check failed, 'warn' iff no blocking check and some
\* advisory check failed, 'pass' iff no check failed.
C15_VerdictFromFailedChecks ==
    \A k \in ReturnedCalls :
        LET doc == verdicts[k].verdict
        IN ~doc.degraded =>
              /\ Checked(doc) = BlockingChecks \cup AdvisoryChecks
              /\ doc.verdict = "fail"
                    <=> Failed(doc) \cap BlockingChecks # {}
              /\ doc.verdict = "warn"
                    <=> /\ Failed(doc) \cap BlockingChecks = {}
                        /\ Failed(doc) \cap AdvisoryChecks # {}
              /\ doc.verdict = "pass" <=> Failed(doc) = {}

\* A sidecar whose only failed check is lint_clean got 'warn'.
C15_Witness ==
    \E k \in ReturnedCalls :
        /\ verdicts[k].verdict.verdict = "warn"
        /\ Failed(verdicts[k].verdict) = {"lint_clean"}

\* C16: retry_eligible is true iff the verdict is 'fail' and build_success,
\* tests_passing or arch_p0_clear is among the failed checks.
C16_RetryEligibility ==
    \A k \in ReturnedCalls :
        LET doc == verdicts[k].verdict
        IN doc.retry_eligible
              <=> /\ doc.verdict = "fail"
                  /\ Failed(doc) \cap {"build_success", "tests_passing",
                                       "arch_p0_clear"} # {}

\* A verdict failed on code_review_clear and secrets_clean alone and is
\* not retry-eligible.
C16_Witness ==
    \E k \in ReturnedCalls :
        /\ verdicts[k].verdict.verdict = "fail"
        /\ Failed(verdicts[k].verdict)
              = {"code_review_clear", "secrets_clean"}
        /\ ~verdicts[k].verdict.retry_eligible

\* The sidecar is absent, no mapping, or lacks quality or error_taxonomy.
Unusable(sidecar) ==
    \/ ~IsDict(sidecar)
    \/ "quality" \notin DOMAIN sidecar
    \/ "error_taxonomy" \notin DOMAIN sidecar

\* C17: for such a sidecar generate_verdict returns a degraded verdict:
\* 'pass', degraded, with a reason, no check results, no failures, not
\* retry-eligible, an empty signature and no fix hints.
C17_DegradedVerdict ==
    \A k \in 1..Len(verdicts) :
        Unusable(sidecars[k][2]) =>
            /\ verdicts[k].raised = ""
            /\ verdicts[k].verdict.verdict = "pass"
            /\ verdicts[k].verdict.degraded
            /\ verdicts[k].verdict.degraded_reason # ""
            /\ verdicts[k].verdict.check_results = <<>>
            /\ verdicts[k].verdict.blocking_failures = <<>>
            /\ verdicts[k].verdict.advisory_failures = <<>>
            /\ ~verdicts[k].verdict.retry_eligible
            /\ verdicts[k].verdict.failure_signature = ""
            /\ verdicts[k].verdict.fix_hints = <<>>

\* A mapping that has quality and lacks error_taxonomy got its verdict.
C17_Witness ==
    /\ Len(verdicts) = 1
    /\ IsDict(sidecars[1][2])
    /\ "quality" \in DOMAIN sidecars[1][2]
    /\ "error_taxonomy" \notin DOMAIN sidecars[1][2]
    /\ verdicts[1].verdict.degraded

\* A value that is neither a mapping nor, where absence is allowed, None.
NoMapping(value) == ~IsDict(value)

\* The sidecar has quality and error_taxonomy, and quality, error_taxonomy
\* or execution_context is no mapping, or a sub-section of quality is
\* neither a mapping nor None.
MalformedSections(sidecar) ==
    /\ ~Unusable(sidecar)
    /\ \/ NoMapping(sidecar.quality)
       \/ NoMapping(sidecar.error_taxonomy)
       \/ /\ "execution_context" \in DOMAIN sidecar
          /\ NoMapping(sidecar.execution_context)
       \/ /\ IsDict(sidecar.quality)
          /\ \E key \in DOMAIN sidecar.quality :
                /\ sidecar.quality[key] # PyNone
                /\ NoMapping(sidecar.quality[key])

\* C18: on a sidecar with malformed sections generate_verdict does not
\* raise and returns a 'pass' verdict flagged degraded.
C18_FailsOpenOnMalformed ==
    \A k \in 1..Len(verdicts) :
        MalformedSections(sidecars[k][2]) =>
            /\ verdicts[k].raised = ""
            /\ verdicts[k].verdict.verdict = "pass"
            /\ verdicts[k].verdict.degraded

\* passed of the result a verdict document holds for a check.
PassedIn(doc, check_id) ==
    \E i \in 1..Len(doc.check_results) :
        /\ doc.check_results[i].check_id = check_id
        /\ doc.check_results[i].passed

\* key is missing from the mapping, or null.
AbsentOrNull(mapping, key) ==
    key \notin DOMAIN mapping \/ mapping[key] = PyNone

\* The build step is not among execution_context.steps_completed.
BuildNotRun(sidecar) ==
    \/ "execution_context" \notin DOMAIN sidecar
    \/ "steps_completed" \notin DOMAIN sidecar.execution_context
    \/ ~\E i \in 1..Len(sidecar.execution_context.steps_completed.items) :
           sidecar.execution_context.steps_completed.items[i] = "build"

\* C19: in every verdict that reports checks, a check whose step was not
\* run passed: build_success without 'build' in steps_completed, whatever
\* the fail_category; tests_passing and lint_clean without
\* quality.validation; arch_p0_clear, code_review_clear and secrets_clean
\* without their sub-section; type_clean always.
C19_NotRunMeansPassed ==
    \A k \in ReturnedCalls :
        LET doc == verdicts[k].verdict
            sidecar == sidecars[k][2]
        IN ~doc.degraded =>
              /\ PassedIn(doc, "type_clean")
              /\ BuildNotRun(sidecar) => PassedIn(doc, "build_success")
              /\ AbsentOrNull(sidecar.quality, "validation") =>
                    /\ PassedIn(doc, "tests_passing")
                    /\ PassedIn(doc, "lint_clean")
              /\ AbsentOrNull(sidecar.quality, "cursor_audit") =>
                    PassedIn(doc, "arch_p0_clear")
              /\ AbsentOrNull(sidecar.quality, "code_review") =>
                    PassedIn(doc, "code_review_clear")
              /\ AbsentOrNull(sidecar.quality, "pre_commit_safety") =>
                    PassedIn(doc, "secrets_clean")

\* The fail_category is build, the build step was not run, validation is
\* null, and the verdict is 'pass'.
C19_Witness ==
    /\ Len(verdicts) = 1
    /\ verdicts[1].raised = ""
    /\ ~Unusable(sidecars[1][2])
    /\ sidecars[1][2].error_taxonomy.fail_category = "build"
    /\ "execution_context" \in DOMAIN sidecars[1][2]
    /\ BuildNotRun(sidecars[1][2])
    /\ "validation" \in DOMAIN sidecars[1][2].quality
    /\ sidecars[1][2].quality.validation = PyNone
    /\ verdicts[1].verdict.verdict = "pass"

\* C20: two verdicts with the same set of failed blocking checks have the
\* same failure_signature, two with different non-empty sets have different
\* ones, and the signature is "" exactly when no blocking check failed.
C20_SignatureOfFailedSet ==
    \A k \in ReturnedCalls :
        LET doc == verdicts[k].verdict
        IN /\ doc.failure_signature = ""
                 <=> Failed(doc) \cap BlockingChecks = {}
           /\ \A j \in ReturnedCalls :
                 LET other == verdicts[j].verdict
                 IN /\ Failed(doc) \cap BlockingChecks
                          = Failed(other) \cap BlockingChecks
                       => doc.failure_signature = other.failure_signature
                    /\ (/\ Failed(doc) \cap BlockingChecks
                              # Failed(other) \cap BlockingChecks
                        /\ Failed(doc) \cap BlockingChecks # {}
                        /\ Failed(other) \cap BlockingChecks # {})
                       => doc.failure_signature # other.failure_signature

\* Two runs with different artifact ids and different lint results failed
\* the same two blocking checks.
C20_Witness ==
    /\ Len(verdicts) = 2
    /\ sidecars[1][1] # sidecars[2][1]
    /\ Failed(verdicts[1].verdict) \cap BlockingChecks
          = {"build_success", "secrets_clean"}
    /\ Failed(verdicts[2].verdict) \cap BlockingChecks
          = {"build_success", "secrets_clean"}
    /\ Failed(verdicts[1].verdict) # Failed(verdicts[2].verdict)
    /\ verdicts[1].verdict.failure_signature # ""
(***************************************************************************)
(* Properties of write_verdict                                             *)
(***************************************************************************)

\* C21: a verdict is written once per artifact id: a verdict document
\* stored under an artifact id stays the one stored, whatever is written
\* later.
C21_VerdictWrittenOnce ==
    [][\A artifact_id \in DOMAIN verdicts_dir :
          /\ artifact_id \in DOMAIN verdicts_dir'
          /\ verdicts_dir'[artifact_id] = verdicts_dir[artifact_id]]_vars

(***************************************************************************)
(* Properties of compute_trends                                            *)
(***************************************************************************)

TrendLabels == {"improving", "stable", "degrading", "insufficient_data"}

\* C24: after compute_trends each of the three trends of the returned
\* summary is one of improving, stable, degrading, insufficient_data, and
\* all three are insufficient_data when the previous window is empty.
C24_TrendsLabelled ==
    trended # <<>> =>
        /\ trended[1].duration_trend \in TrendLabels
        /\ trended[1].reliability_trend \in TrendLabels
        /\ trended[1].hygiene_trend \in TrendLabels
        /\ summaries[2].run_count = 0 =>
              /\ trended[1].duration_trend = "insufficient_data"
              /\ trended[1].reliability_trend = "insufficient_data"
              /\ trended[1].hygiene_trend = "insufficient_data"

(***************************************************************************)
(* Properties of the Analysis Agent                                        *)
(***************************************************************************)

C23_ReportWrittenOnce ==
    [][AgentRun /\ alast'.returned.success =>
          /\ Cardinality(DOMAIN analysis_dir')
                = Cardinality(DOMAIN analysis_dir) + 1
          /\ \A name \in DOMAIN analysis_dir :
                /\ name \in DOMAIN analysis_dir'
                /\ analysis_dir'[name] = analysis_dir[name]]_vars

(***************************************************************************)
(* Properties of the rules                                                 *)
(***************************************************************************)

\* The last call generated a proposal.
Generated ==
    /\ elast.op = "generate_proposal"
    /\ elast.raised = ""
    /\ elast.returned # None

IsDiff(diff) == diff # NoDiff

\* Every diff the rules produce for the findings, in (finding, rule) order.
Produced(findings, params) ==
    SelectSeq([n \in 1..(Len(findings) * NumRules) |->
                  Rule(((n - 1) % NumRules) + 1,
                       findings[((n - 1) \div NumRules) + 1],
                       AnalysisConfig, params)],
              IsDiff)

\* C25: the diffs of a generated proposal have pairwise distinct paths, one
\* for every path the rules produced a diff for, and the diff kept for a
\* path is the first one produced for it in (finding, rule) order.
C25_OneDiffPerPathFirstKept ==
    Generated =>
        LET diffs == elast.returned.parameter_diffs
            produced == Produced(elast.arg, ParamsOrEmpty(parameters_dir))
        IN /\ \A i, j \in 1..Len(diffs) :
                 i # j => diffs[i].path # diffs[j].path
           /\ {diffs[i].path : i \in 1..Len(diffs)}
                 = {produced[k].path : k \in 1..Len(produced)}
           /\ \A i \in 1..Len(diffs) :
                 \E k \in 1..Len(produced) :
                     /\ produced[k] = diffs[i]
                     /\ \A l \in 1..(k - 1) :
                           produced[l].path # diffs[i].path

\* Two findings produced different diffs for one path.
C25_Witness ==
    /\ Generated
    /\ LET produced == Produced(elast.arg, ParamsOrEmpty(parameters_dir))
       IN \E k, l \in 1..Len(produced) :
              /\ produced[k].path = produced[l].path
              /\ produced[k] # produced[l]

\* C26: the impact of a generated proposal is high iff a finding passed in
\* is critical, else medium iff it has more than two diffs, else low; and
\* version_to is version_from with PATCH + 1 for low impact, with
\* MINOR + 1 and PATCH 0 for medium and high.
C26_ImpactAndVersion ==
    Generated =>
        LET proposal == elast.returned
            findings == elast.arg
            critical == \E k \in 1..Len(findings) :
                            findings[k].severity = "critical"
            from == MatchVersion(proposal.version_from)
            to == MatchVersion(proposal.version_to)
        IN /\ proposal.impact_level =
                 IF critical THEN "high"
                 ELSE IF Len(proposal.parameter_diffs) > 2 THEN "medium"
                 ELSE "low"
           /\ from # <<>>
           /\ to # <<>>
           /\ proposal.version_to = FormatVersion(to[1], to[2], to[3])
           /\ to[1] = from[1]
           /\ proposal.impact_level = "low" =>
                 to[2] = from[2] /\ to[3] = from[3] + 1
           /\ proposal.impact_level \in {"medium", "high"} =>
                 to[2] = from[2] + 1 /\ to[3] = 0

\* A proposal of medium impact was generated from a version with a PATCH
\* that is not 0.
C26_Witness ==
    /\ Generated
    /\ elast.returned.impact_level = "medium"
    /\ MatchVersion(elast.returned.version_from)[3] > 0

\* C30: every diff of a generated proposal changes its parameter; the
\* build success rate target is never raised and never put below 0.5, the
\* manual intervention target never lowered and never put above 1.0.
C30_DiffsChangeInDirection ==
    Generated =>
        \A i \in 1..Len(elast.returned.parameter_diffs) :
            LET diff == elast.returned.parameter_diffs[i]
            IN /\ diff.new_value # diff.old_value
               /\ diff.path = "targets.build_success_rate" =>
                     diff.new_value <= diff.old_value /\ diff.new_value >= 50
               /\ diff.path = "targets.manual_intervention_rate" =>
                     diff.new_value >= diff.old_value
                         /\ diff.new_value <= 100

(***************************************************************************)
(* Properties of concurrent callers                                        *)
(***************************************************************************)

\* The run file the two writers write.
RacePath == _run_path(parg["A"].run_id)

\* C27: with two writers in write_run for the same run id, the file under
\* the final name is at every moment absent or a complete record written
\* by one of them.
C27_FinalFileAbsentOrComplete ==
    Exists(runs_dir, RacePath) =>
        \E p \in Procs : runs_dir[RacePath] = to_json(parg[p])

\* C28: the existence check and the write are not one step: when both
\* writers passed the check and both renamed, neither raised
\* RecordExistsError and the record persisted first is gone, replaced by
\* the record of the writer that renamed last.
C28_LastWriterWins ==
    Len(porder) = 2 =>
        /\ \A p \in Procs : pout[p] = "ok"
        /\ runs_dir[RacePath] = to_json(parg[porder[2]])
        /\ runs_dir[RacePath] # to_json(parg[porder[1]])

\* Both writers passed the check and returned, and the file holds the
\* second one's record.
C28_Witness ==
    /\ \A p \in Procs : ppc[p] = "done" /\ pout[p] = "ok"
    /\ porder = <<"A", "B">>
    /\ runs_dir[RacePath] = to_json(parg["B"])

\* C29: the pending scan and the write of generate_proposal are not one
\* step: every caller that passed the scan and had a rule match persists
\* a pending proposal of its own, so two concurrent callers leave two
\* pending proposals.
C29_EveryScannedCallerPersists ==
    Cardinality(Pending(proposals_dir)) = Len(porder)

\* Both callers passed the scan and two proposals are pending.
C29_Witness ==
    /\ \A p \in Procs : ppc[p] = "done" /\ pout[p] = "returned"
    /\ Cardinality(Pending(proposals_dir)) = 2

====
